---- MODULE Spec2Model ----
(***************************************************************************)
(* Agent execution core of apehost-tamarin-ui.                             *)
(*                                                                         *)
(* AgentOrchestrator.runAgent is an async generator.  A run advances only  *)
(* when its consumer pulls the next event (every `yield` is a suspension   *)
(* point) or when an awaited promise settles (the fetch of the model       *)
(* response, a read of the response body).  Between two suspension points  *)
(* the code runs without interleaving (single-threaded event loop), so one *)
(* action of this model is the code between two suspension points.         *)
(* cancelRun and the run-timeout timer are other event-loop tasks and may  *)
(* run at any suspension point.                                            *)
(***************************************************************************)
EXTENDS Integers, Sequences, FiniteSets, TLC

\* ------------------------------------------------------------------------
\* Bounds of the model
\* ------------------------------------------------------------------------

\* number of callers that may hold a runAgent stream at the same time
MaxSlots == 2

\* largest maxTurns of the agents that are registered
MaxTurns == 2

\* largest number of tool calls the model returns in one delta
MaxCalls == 2

\* largest number of deltas the model streams during one run
MaxDeltas == 2

\* longest list of calls handed to executeToolCalls on its own
MaxBatchCalls == 3

\* largest maxConcurrent option
MaxConcurrent == 2

\* the timeout option, in ticks of the clock
ExecTimeout == 1

Slots == 1..MaxSlots

\* ------------------------------------------------------------------------
\* Values
\* ------------------------------------------------------------------------

\* content-delta strings are sequences of tokens, so that concatenation is
\* sequence concatenation
Tokens == {"a"}

\* run.output while it is undefined
NoOutput == <<"<undefined>">>

\* run.error / step.error / step.toolName while undefined
None == "<undefined>"

TerminalStatuses == {"completed", "failed", "cancelled"}

AgentIds == {"agent1"}
UnknownAgentId == "ghost"
ServerIds == {"srv1"}
UnknownServerId == "nosrv"
ModelName == "model-x"

ToolNames == {"calculator"}

\* a tool that is registered and enabled like the others, and that no
\* agent has on its allow-list
OtherTool == "shell"

\* raw argument blobs of a tool call as the model emits them
ArgBlobs == {"{}", "not json"}

\* JSON.parse(s) succeeds
JsonValid(s) == s = "{}"

\* messages of the errors that can be thrown
ModelErrMsg == "fetch failed"
TypeErrMsg == "Cannot read properties of undefined (reading 'name')"
JsonErrMsg == "Unexpected token in JSON"
ParseFailMsg == "Failed to parse tool call arguments"

VARIABLES
  agents,      \* AgentOrchestrator.agents: agent id -> AgentDefinition
  config,      \* AgentOrchestrator.config
  upstream,    \* the completion endpoint: "up" (streams deltas), "calls"
               \* (streams deltas that carry one tool call and no content),
               \* "outside" (the same, the call naming a tool that is not
               \* on the allow-list of the agent),
               \* "silent" (answers with a body that carries no delta) or
               \* "down"
  callers,     \* the callers that exist (slots that may invoke runAgent)
  activeRuns,  \* AgentOrchestrator.activeRuns (keys)
  run,         \* slot -> AgentRun of the run held by the slot
  agentOf,     \* slot -> AgentDefinition captured in the AgentRunContext
  abort,       \* slot -> abortController.signal.aborted
  timer,       \* slot -> the run-timeout timer is armed
  pc,          \* slot -> suspension point of the generator
  loc,         \* slot -> local variables of executeAgentLoop / executeTools
  events,      \* slot -> events yielded to the consumer so far
  request,     \* slot -> arguments of the runAgent invocation
  cancelOk,    \* slot -> cancelRun returned true for the current run
  exec,        \* the invocation of executeToolCalls that is observed on
               \* its own (its arguments, locals and position)
  reg,         \* ToolRegistry.tools and the invocation of execute that is
               \* observed on its own
  retry,       \* the invocation of withRetry that is observed on its own
  window,      \* the invocation of applyContextWindow that is observed
  http         \* the PUT and DELETE requests on /api/agents/[agentId] that
               \* are in flight, and the last response

\* what no action of the orchestrator's run path changes
env == <<agents, config, upstream, callers, exec, reg, retry, window, http>>

vars == <<env, activeRuns, run, agentOf, abort, timer, pc, loc, events,
          request, cancelOk>>

\* ------------------------------------------------------------------------
\* Records
\* ------------------------------------------------------------------------

Behaviors ==
  [maxToolCallsPerTurn : {1},
   maxTurns : 1..MaxTurns,
   autoContinue : BOOLEAN,
   stopOnError : BOOLEAN,
   requireConfirmation : BOOLEAN]

AgentDefinition(id, b, pm) ==
  [id |-> id, tools |-> {}, behavior |-> b, preferredModel |-> pm]

NoAgent == AgentDefinition("", [maxToolCallsPerTurn |-> 1, maxTurns |-> 1,
                                autoContinue |-> TRUE, stopOnError |-> FALSE,
                                requireConfirmation |-> FALSE], "")

NoRun ==
  [status |-> "pending", steps |-> <<>>, messages |-> <<>>, currentTurn |-> 0,
   totalToolCalls |-> 0, output |-> NoOutput, error |-> None,
   endedAt |-> FALSE]

NoRequest == [agentId |-> "", serverId |-> "", model |-> ""]

NoAssistant == [role |-> "none"]

NoLoc ==
  [accumulatedContent |-> <<>>, assistantMessage |-> NoAssistant,
   toolCalls |-> <<>>, toolIdx |-> 0, deltas |-> 0, modelCalls |-> 0]

Message(role, content) == [role |-> role, content |-> content]

ToolMessage(content, tc) ==
  [role |-> "tool", content |-> content, tool_call_id |-> tc.id,
   name |-> tc.function.name]

Step(index, type, content, toolName, error) ==
  [index |-> index, type |-> type, content |-> content,
   toolName |-> toolName, error |-> error]

\* a call as the model emits it (ToolCallSchema)
ToolCall(id, name, args) ==
  [id |-> id, type |-> "function",
   function |-> [name |-> name, arguments |-> args]]

\* the lists of tool calls a delta can carry: up to MaxCalls calls, at most
\* one of them with an argument blob that is not JSON
CallLists ==
  {cs \in UNION {[1..n -> {ToolCall(0, nm, a) : nm \in ToolNames,
                                                 a \in ArgBlobs}]
                   : n \in 0..MaxCalls} :
     Cardinality({i \in DOMAIN cs : ~JsonValid(cs[i].function.arguments)}) <= 1}

\* the lists that hold one call
SingleCalls == {cs \in CallLists : Len(cs) = 1}

\* the list that holds one call of the tool that is registered and enabled
\* but is on no allow-list
OutsideCalls == {<<ToolCall(0, OtherTool, "{}")>>}

\* ids are the positions in the list
WithIds(cs) == [i \in DOMAIN cs |-> [cs[i] EXCEPT !.id = i]]

\* ------------------------------------------------------------------------
\* Tool executor and tool registry (pure parts)
\* ------------------------------------------------------------------------

\* the registered tools: enabled flag and what the handler does
ToolRegistry ==
  [n \in ToolNames \cup {OtherTool} |->
     [enabled |-> TRUE, handler |-> "returns"]]

\* toolRegistry.execute: never throws, every failure is a result value
RegistryExecute(call) ==
  IF call.name \notin DOMAIN ToolRegistry
    THEN [toolCallId |-> call.id, name |-> call.name, result |-> "null",
          error |-> "not found"]
  ELSE IF ~ToolRegistry[call.name].enabled
    THEN [toolCallId |-> call.id, name |-> call.name, result |-> "null",
          error |-> "is disabled"]
  ELSE IF ToolRegistry[call.name].handler = "throws"
    THEN [toolCallId |-> call.id, name |-> call.name, result |-> "null",
          error |-> "handler error"]
  ELSE [toolCallId |-> call.id, name |-> call.name, result |-> "value",
        error |-> None]

\* parseToolCallArguments: the try/catch turns every exception into null,
\* the SyntaxError of JSON.parse and also the TypeError of reading
\* `.arguments` of an absent `function` property
parseToolCallArguments(toolCall) ==
  IF "function" \in DOMAIN toolCall /\ JsonValid(toolCall.function.arguments)
    THEN [ok |-> TRUE,
          call |-> [id |-> toolCall.id, name |-> toolCall.function.name,
                    arguments |-> "object"]]
    ELSE [ok |-> FALSE]

\* executeToolCalls that takes the elements of its argument for parsed calls
executeToolCalls_TakesParsedCalls(toolCalls) ==
  [threw |-> FALSE,
   results |-> [i \in DOMAIN toolCalls |-> RegistryExecute(toolCalls[i])]]

\* executeToolCalls, as a function of its argument list.  For a call whose
\* parse is null the result is built from toolCalls[index].function.name,
\* which throws a TypeError when the element has no `function` property;
\* the exception is not caught inside executeToolCalls.
executeToolCalls(toolCalls) ==
  LET parsedCalls ==
        [i \in DOMAIN toolCalls |-> parseToolCallArguments(toolCalls[i])]
  IN IF \E i \in DOMAIN toolCalls :
          ~parsedCalls[i].ok /\ "function" \notin DOMAIN toolCalls[i]
       THEN [threw |-> TRUE, error |-> TypeErrMsg]
       ELSE [threw |-> FALSE,
             results |->
               [i \in DOMAIN toolCalls |->
                  IF parsedCalls[i].ok
                    THEN RegistryExecute(parsedCalls[i].call)
                    ELSE [toolCallId |-> toolCalls[i].id,
                          name |-> toolCalls[i].function.name,
                          result |-> "null", error |-> ParseFailMsg]]]

\* hasToolCalls: tool_calls is an array and is not empty
hasToolCalls(m) == "tool_calls" \in DOMAIN m /\ Len(m.tool_calls) > 0

\* s || "{}"
OrEmptyObject(s) == IF s = "" THEN "{}" ELSE s

\* JSON.stringify(result.result)
JsonStringify(v) == <<"json", v>>

\* ------------------------------------------------------------------------
\* The generator frame of one run: the part of the state that the code of
\* runAgent / executeAgentLoop / executeTools reads and writes
\* ------------------------------------------------------------------------

Frame(r) ==
  [run |-> run[r], pc |-> pc[r], events |-> events[r], loc |-> loc[r],
   timer |-> timer[r], active |-> r \in activeRuns]

Commit(r, g) ==
  /\ run' = [run EXCEPT ![r] = g.run]
  /\ pc' = [pc EXCEPT ![r] = g.pc]
  /\ events' = [events EXCEPT ![r] = g.events]
  /\ loc' = [loc EXCEPT ![r] = g.loc]
  /\ timer' = [timer EXCEPT ![r] = g.timer]
  /\ activeRuns' = IF g.active THEN activeRuns \cup {r} ELSE activeRuns \ {r}

\* createStatusEvent: sets run.status and returns the status event
createStatusEvent(g, status) ==
  [g EXCEPT !.run.status = status,
            !.events = Append(@, [type |-> "status", status |-> status])]

\* createStepEvent that puts the step at the front of run.steps
createStepEvent_Unshift(g, type, content, toolName, error) ==
  LET step == Step(Len(g.run.steps), type, content, toolName, error)
  IN [g EXCEPT !.run.steps = <<step>> \o @,
               !.events = Append(@, [type |-> "step", step |-> step])]

\* createStepEvent: appends the step to run.steps and returns the step event
createStepEvent(g, type, content, toolName, error) ==
  LET step == Step(Len(g.run.steps), type, content, toolName, error)
  IN [g EXCEPT !.run.steps = Append(@, step),
               !.events = Append(@, [type |-> "step", step |-> step])]

createErrorEvent(g, error) ==
  [g EXCEPT !.events = Append(@, [type |-> "error", error |-> error])]

createDoneEvent(g) ==
  [g EXCEPT !.events = Append(@, [type |-> "done", run |-> g.run])]

At(g, p) == [g EXCEPT !.pc = p]

\* AfterLoop that ends the stream without the done event
AfterLoop_NoDone(g) ==
  At([g EXCEPT !.timer = FALSE, !.active = FALSE], "ended")

\* runAgent after executeAgentLoop returned: clearTimeout, the finally block
\* and the final done event
AfterLoop(g) ==
  At(createDoneEvent([g EXCEPT !.timer = FALSE, !.active = FALSE]), "y_done")

\* messages[messages.length - 1]?.content || ""
LastContent(messages) ==
  IF Len(messages) = 0 THEN <<>> ELSE messages[Len(messages)].content

\* PostLoop without the fallback: the status is left as the loop left it
PostLoop_NoFallback(g) == AfterLoop(g)

\* executeAgentLoop after the while loop: the max-turns fallback
PostLoop(g) ==
  AfterLoop(IF g.run.status \notin {"completed", "failed"}
              THEN [g EXCEPT !.run.status = "completed",
                             !.run.output = LastContent(g.run.messages),
                             !.run.endedAt = TRUE]
              ELSE g)

\* LoopTop with the loop condition off by one (<= instead of <)
LoopTop_OffByOne(g, agent, aborted) ==
  IF g.run.currentTurn <= agent.behavior.maxTurns
    THEN IF aborted
           THEN At(createStatusEvent(g, "cancelled"), "y_cancelled")
           ELSE LET turn == g.run.currentTurn + 1
                IN At(createStepEvent([g EXCEPT !.run.currentTurn = turn],
                                      "thinking", <<"Turn", ToString(turn)>>,
                                      None, None),
                      "y_thinking")
    ELSE PostLoop(g)

\* top of the while loop up to the yield of the thinking step
LoopTop(g, agent, aborted) ==
  IF g.run.currentTurn < agent.behavior.maxTurns
    THEN IF aborted
           THEN At(createStatusEvent(g, "cancelled"), "y_cancelled")
           ELSE LET turn == g.run.currentTurn + 1
                IN At(createStepEvent([g EXCEPT !.run.currentTurn = turn],
                                      "thinking", <<"Turn", ToString(turn)>>,
                                      None, None),
                      "y_thinking")
    ELSE PostLoop(g)

\* CallModel that keeps the content accumulated by the previous turn
CallModel_KeepsContent(g) ==
  At([g EXCEPT !.loc.assistantMessage = NoAssistant,
               !.loc.modelCalls = @ + 1],
     "await_model")

\* resumed after the thinking step: the locals of the turn are reset and
\* chatCompletion is called (one model invocation)
CallModel(g) ==
  At([g EXCEPT !.loc.accumulatedContent = <<>>,
               !.loc.assistantMessage = NoAssistant,
               !.loc.modelCalls = @ + 1],
     "await_model")

\* LoopCatch that records no error step
LoopCatch_NoStep(g, errorMessage) == At(g, "y_errstep")

\* catch block of the turn: the error step is yielded
LoopCatch(g, errorMessage) ==
  At(createStepEvent(g, "error", <<errorMessage>>, None, errorMessage),
     "y_errstep")

\* AfterErrStep that goes on to the next turn whatever stopOnError says
AfterErrStep_IgnoresStopOnError(g, agent, aborted) ==
  LoopTop(g, agent, aborted)

\* catch block of the turn after the error step was consumed
AfterErrStep(g, agent, aborted) ==
  IF agent.behavior.stopOnError
    THEN AfterLoop([g EXCEPT !.run.status = "failed",
                             !.run.error = g.run.steps[Len(g.run.steps)].error,
                             !.run.endedAt = TRUE])
    ELSE LoopTop(g, agent, aborted)

\* after executeTools returned: break unless autoContinue
AfterExecuteTools(g, agent, aborted) ==
  IF ~agent.behavior.autoContinue
    THEN PostLoop(g)
    ELSE LoopTop(g, agent, aborted)

\* executeTools, loop head for the call at position i: the tool_call step
\* evaluates JSON.parse(arguments || "{}") outside the try block of
\* executeTools, so a SyntaxError reaches the catch block of the turn
ExecuteToolsFrom(g, agent, aborted, i) ==
  IF i > Len(g.loc.toolCalls)
    THEN AfterExecuteTools(g, agent, aborted)
    ELSE LET toolCall == g.loc.toolCalls[i]
         IN IF ~JsonValid(OrEmptyObject(toolCall.function.arguments))
              THEN LoopCatch(g, JsonErrMsg)
              ELSE At(createStepEvent([g EXCEPT !.loc.toolIdx = i],
                                      "tool_call", <<"Calling tool">>,
                                      toolCall.function.name, None),
                      "y_toolcall_step")

\* resumed after the tool_call step: the tool_call event
ToolCallEvent(g) ==
  LET toolCall == g.loc.toolCalls[g.loc.toolIdx]
  IN At([g EXCEPT !.events =
           Append(@, [type |-> "tool_call",
                      toolName |-> toolCall.function.name])],
        "y_toolcall_evt")

\* try block of executeTools: the ParsedToolCall is handed to
\* executeToolCalls, the tool message and the step are recorded
Dispatch(g) ==
  LET toolCall == g.loc.toolCalls[g.loc.toolIdx]
      parsedCall == [id |-> toolCall.id, name |-> toolCall.function.name,
                     arguments |-> "object"]
      out == executeToolCalls(<<parsedCall>>)
  IN IF out.threw
       THEN LET g1 == [g EXCEPT !.run.messages =
                         Append(@, ToolMessage(<<"Error: ", out.error>>,
                                               toolCall))]
            IN At(createStepEvent(g1, "error", <<out.error>>,
                                  toolCall.function.name, out.error),
                  "y_toolerr_step")
       ELSE LET result == out.results[1]
                content == IF result.error # None
                             THEN <<result.error>>
                             ELSE JsonStringify(result.result)
                g1 == [g EXCEPT !.run.messages =
                         Append(@, ToolMessage(content, toolCall))]
            IN At(createStepEvent(g1, "tool_result", content,
                                  toolCall.function.name, result.error),
                  "y_toolres_step")

\* resumed after the tool_result step: the tool_result event
ToolResultEvent(g) ==
  LET toolCall == g.loc.toolCalls[g.loc.toolIdx]
  IN At([g EXCEPT !.events =
           Append(@, [type |-> "tool_result",
                      toolName |-> toolCall.function.name])],
        "y_toolres_evt")

\* after the outcome of a call was yielded: stop on error, or the next call.
\* The error is the one recorded in the last step.
AfterToolOutcome(g, agent, aborted) ==
  LET error == g.run.steps[Len(g.run.steps)].error
  IN IF error # None /\ agent.behavior.stopOnError
       THEN AfterExecuteTools([g EXCEPT !.run.status = "failed",
                                        !.run.error = error],
                              agent, aborted)
       ELSE ExecuteToolsFrom(g, agent, aborted, g.loc.toolIdx + 1)

\* requireConfirmation gate (a status change only), then executeTools
Confirm(g, agent, aborted) ==
  IF agent.behavior.requireConfirmation
    THEN At(createStatusEvent(g, "waiting_confirmation"), "y_confirm")
    ELSE ExecuteToolsFrom(g, agent, aborted, 1)

\* resumed after the step that notes the truncation: the assistant message
\* in the history gets the truncated list, toolCalls keeps the full list
AfterLimit(g, agent, aborted) ==
  LET n == Len(g.run.messages)
      limitedCalls == SubSeq(g.loc.toolCalls, 1,
                             agent.behavior.maxToolCallsPerTurn)
  IN Confirm([g EXCEPT !.run.messages[n].tool_calls = limitedCalls],
             agent, aborted)

\* StreamEnd that counts the calls after the truncation
StreamEnd_CountsAfterLimit(g, agent, aborted) ==
  LET assistantMessage ==
        IF g.loc.assistantMessage = NoAssistant
          THEN Message("assistant", g.loc.accumulatedContent)
          ELSE g.loc.assistantMessage
      g1 == [g EXCEPT !.run.messages = Append(@, assistantMessage)]
  IN IF hasToolCalls(assistantMessage)
       THEN LET toolCalls == assistantMessage.tool_calls
                max == agent.behavior.maxToolCallsPerTurn
                g2 == [g1 EXCEPT !.loc.toolCalls = toolCalls,
                                 !.run.totalToolCalls =
                                   @ + (IF Len(toolCalls) > max
                                          THEN max ELSE Len(toolCalls))]
            IN IF Len(toolCalls) > max
                 THEN At(createStepEvent(g2, "thinking",
                                         <<"Limiting tool calls">>,
                                         None, None),
                         "y_limit")
                 ELSE Confirm(g2, agent, aborted)
       ELSE At(createStepEvent(
                 [g1 EXCEPT !.run.status = "completed",
                            !.run.output = g.loc.accumulatedContent,
                            !.run.endedAt = TRUE],
                 "response", g.loc.accumulatedContent, None, None),
               "y_response")

\* the response body ended: the assistant message is finalized and pushed
StreamEnd(g, agent, aborted) ==
  LET assistantMessage ==
        IF g.loc.assistantMessage = NoAssistant
          THEN Message("assistant", g.loc.accumulatedContent)
          ELSE g.loc.assistantMessage
      g1 == [g EXCEPT !.run.messages = Append(@, assistantMessage)]
  IN IF hasToolCalls(assistantMessage)
       THEN LET toolCalls == assistantMessage.tool_calls
                g2 == [g1 EXCEPT !.loc.toolCalls = toolCalls,
                                 !.run.totalToolCalls = @ + Len(toolCalls)]
            IN IF Len(toolCalls) > agent.behavior.maxToolCallsPerTurn
                 THEN At(createStepEvent(g2, "thinking",
                                         <<"Limiting tool calls">>,
                                         None, None),
                         "y_limit")
                 ELSE Confirm(g2, agent, aborted)
       ELSE At(createStepEvent(
                 [g1 EXCEPT !.run.status = "completed",
                            !.run.output = g.loc.accumulatedContent,
                            !.run.endedAt = TRUE],
                 "response", g.loc.accumulatedContent, None, None),
               "y_response")

\* ------------------------------------------------------------------------
\* executeToolCalls as a process: parse, then batches of maxConcurrent calls
\* that each race against a timer of their own
\* ------------------------------------------------------------------------

\* what a call of the input list is: arguments that are not JSON, a tool
\* whose handler returns, throws or never settles, a tool that is not
\* registered
CallKinds == {"badjson", "returns", "throws", "never", "notfound"}

\* the raw call of a kind, at position i of the list
CallOfKind(kind, i) ==
  ToolCall(i, IF kind = "notfound" THEN "missing" ELSE "calculator",
           IF kind = "badjson" THEN "not json" ELSE "{}")

\* the input lists of executeToolCalls: the kinds of up to MaxBatchCalls calls
KindLists == UNION {[1..n -> CallKinds] : n \in 0..MaxBatchCalls}

\* toolRegistry.execute(call) for a tool whose handler behaves as `handler`
\* and settles: a result value in every case
ExecuteOutcome(call, handler) ==
  IF call.name \notin DOMAIN ToolRegistry
    THEN [toolCallId |-> call.id, name |-> call.name, result |-> "null",
          error |-> "not found"]
  ELSE IF handler = "throws"
    THEN [toolCallId |-> call.id, name |-> call.name, result |-> "null",
          error |-> "handler error"]
  ELSE [toolCallId |-> call.id, name |-> call.name, result |-> "value",
        error |-> None]

\* the promise of toolRegistry.execute(call) settles at all
Settles(call, handler) ==
  call.name \notin DOMAIN ToolRegistry \/ handler # "never"

\* executeWithTimeout: the result of the catch block when the timer wins
TimeoutResult(call) ==
  [toolCallId |-> call.id, name |-> call.name, result |-> "null",
   error |-> "timed out"]

\* the result recorded for a call whose arguments do not parse
ParseFailure(toolCall) ==
  [toolCallId |-> toolCall.id, name |-> toolCall.function.name,
   result |-> "null", error |-> ParseFailMsg]

NoExec ==
  [pc |-> "off", kinds |-> <<>>, toolCalls |-> <<>>,
   opts |-> [maxConcurrent |-> 1, continueOnError |-> TRUE],
   validCalls |-> <<>>, i |-> 0, batch |-> <<>>, batchResults |-> <<>>,
   elapsed |-> 0, inTime |-> {}, results |-> <<>>]

\* the positions of the current batch that have not settled
Pending(e) == {b \in DOMAIN e.batch : b \notin DOMAIN e.batchResults}

\* JavaScript's array.length of the sparse array results
ArrayLength(results) ==
  IF DOMAIN results = {} THEN 0
  ELSE CHOOSE n \in DOMAIN results : \A m \in DOMAIN results : m <= n

\* results[index] = value on a sparse array
ArraySet(results, index, value) ==
  [j \in DOMAIN results \cup {index} |->
     IF j = index THEN value ELSE results[j]]

\* the loop head of the batch loop: the next batch is sliced and every call
\* of it starts together with its timer; after the last batch the function
\* returns
StartBatch(e, i) ==
  IF i < Len(e.validCalls)
    THEN [e EXCEPT !.pc = "batch", !.i = i,
                   !.batch = SubSeq(e.validCalls, i + 1,
                                    IF i + e.opts.maxConcurrent
                                         < Len(e.validCalls)
                                      THEN i + e.opts.maxConcurrent
                                      ELSE Len(e.validCalls)),
                   !.batchResults = <<>>, !.elapsed = 0]
    ELSE [e EXCEPT !.pc = "returned", !.i = i, !.batch = <<>>,
                   !.batchResults = <<>>]

RECURSIVE PlaceResults_ByBatchIndex(_, _, _, _)
\* PlaceResults that writes each result at its position in the batch
PlaceResults_ByBatchIndex(results, batch, batchResults, b) ==
  IF b > Len(batch) THEN results
  ELSE PlaceResults_ByBatchIndex(ArraySet(results, b, batchResults[b]),
                                 batch, batchResults, b + 1)

RECURSIVE PlaceResults(_, _, _, _)
\* batch.forEach(({index}, batchIndex) => results[index] = batchResults[..])
PlaceResults(results, batch, batchResults, b) ==
  IF b > Len(batch) THEN results
  ELSE PlaceResults(ArraySet(results, batch[b], batchResults[b]),
                    batch, batchResults, b + 1)

\* ------------------------------------------------------------------------
\* Components that are observed on their own: the values they hold while
\* nothing has been invoked
\* ------------------------------------------------------------------------

NoResult == [toolCallId |-> "", name |-> "", result |-> "null",
             error |-> None]

NoReg == [tools |-> <<>>, pc |-> "off", call |-> [id |-> "", name |-> ""],
          running |-> "none", invoked |-> 0, result |-> NoResult]

NoRetry == [pc |-> "off"]

NoWindow == [pc |-> "off"]

NoHttp == [pc |-> "off"]

others == <<reg, retry, window, http>>

OthersIdle ==
  /\ reg = NoReg
  /\ retry = NoRetry
  /\ window = NoWindow
  /\ http = NoHttp

\* ------------------------------------------------------------------------
\* Initial states
\* ------------------------------------------------------------------------

InitSlots ==
  /\ activeRuns = {}
  /\ run = [r \in Slots |-> NoRun]
  /\ agentOf = [r \in Slots |-> NoAgent]
  /\ abort = [r \in Slots |-> FALSE]
  /\ timer = [r \in Slots |-> FALSE]
  /\ pc = [r \in Slots |-> "idle"]
  /\ loc = [r \in Slots |-> NoLoc]
  /\ events = [r \in Slots |-> <<>>]
  /\ request = [r \in Slots |-> NoRequest]
  /\ cancelOk = [r \in Slots |-> FALSE]

\* one caller, any behavior policy, a completion endpoint that answers
Init ==
  /\ \E b \in Behaviors :
       agents = [a \in AgentIds |-> AgentDefinition(a, b, "")]
  /\ config = [maxConcurrentRuns |-> 1]
  /\ upstream = "up"
  /\ exec = NoExec
  /\ OthersIdle
  /\ callers = {1}
  /\ InitSlots

\* several callers, one more than maxConcurrentRuns, and a completion
\* endpoint that streams no delta
InitAdmit ==
  /\ \E b \in {x \in Behaviors : x.maxTurns = 1 /\ x.stopOnError
                                  /\ ~x.requireConfirmation /\ x.autoContinue} :
       agents = [a \in AgentIds |-> AgentDefinition(a, b, "")]
  /\ config = [maxConcurrentRuns |-> MaxSlots - 1]
  /\ upstream = "silent"
  /\ exec = NoExec
  /\ OthersIdle
  /\ callers = Slots
  /\ InitSlots

\* ------------------------------------------------------------------------
\* Actions
\* ------------------------------------------------------------------------

\* `request.model || agent.modelConfig.preferredModel || ""`
ResolveModel(agent, requestModel) ==
  IF requestModel # "" THEN requestModel ELSE agent.preferredModel

\* PreconditionError with the capacity check off by one (> instead of >=)
PreconditionError_CapacityOffByOne(agentId, serverId, requestModel) ==
  IF agentId \notin DOMAIN agents
    THEN "Agent not found"
  ELSE IF Cardinality(activeRuns) > config.maxConcurrentRuns
    THEN "Maximum concurrent agent runs reached"
  ELSE IF serverId \notin ServerIds
    THEN "Server not found"
  ELSE IF ResolveModel(agents[agentId], requestModel) = ""
    THEN "No model specified for agent run"
  ELSE ""

\* PreconditionError without the server check
PreconditionError_NoServerCheck(agentId, serverId, requestModel) ==
  IF agentId \notin DOMAIN agents
    THEN "Agent not found"
  ELSE IF Cardinality(activeRuns) >= config.maxConcurrentRuns
    THEN "Maximum concurrent agent runs reached"
  ELSE IF ResolveModel(agents[agentId], requestModel) = ""
    THEN "No model specified for agent run"
  ELSE ""

\* the precondition checks of runAgent, in the order of the code: the message
\* of the first one that fails, "" when all pass
PreconditionError(agentId, serverId, requestModel) ==
  IF agentId \notin DOMAIN agents
    THEN "Agent not found"
  ELSE IF Cardinality(activeRuns) >= config.maxConcurrentRuns
    THEN "Maximum concurrent agent runs reached"
  ELSE IF serverId \notin ServerIds
    THEN "Server not found"
  ELSE IF ResolveModel(agents[agentId], requestModel) = ""
    THEN "No model specified for agent run"
  ELSE ""

\* runAgent(agentId, request) up to its first yield: the precondition checks,
\* the registration in activeRuns, the timer and the status(executing) event
RunAgent(r) ==
  /\ r \in callers
  /\ pc[r] = "idle"
  /\ \E agentId \in AgentIds \cup {UnknownAgentId},
        serverId \in ServerIds \cup {UnknownServerId},
        requestModel \in {"", ModelName} :
       LET g == Frame(r)
           error == PreconditionError(agentId, serverId, requestModel)
       IN /\ request' = [request EXCEPT ![r] =
                           [agentId |-> agentId, serverId |-> serverId,
                            model |-> requestModel]]
          /\ IF error # ""
               THEN /\ Commit(r, At(createErrorEvent(g, error), "y_preerr"))
                    /\ UNCHANGED <<agentOf, abort>>
               ELSE /\ agentOf' = [agentOf EXCEPT ![r] = agents[agentId]]
                    /\ abort' = [abort EXCEPT ![r] = FALSE]
                    /\ Commit(r,
                         At(createStatusEvent(
                              [g EXCEPT
                                 !.run = [NoRun EXCEPT !.messages =
                                            <<Message("system", <<"sys">>),
                                              Message("user", <<"input">>)>>],
                                 !.active = TRUE,
                                 !.timer = TRUE],
                              "executing"),
                            "y_status"))
  /\ UNCHANGED <<env, cancelOk>>

\* ContextAgent that reads the definition registered under the run's agent
\* id at the moment of use
ContextAgent_LooksUpRegistry(r) ==
  IF request[r].agentId \in DOMAIN agents
    THEN agents[request[r].agentId]
    ELSE NoAgent

\* `const { run, agent, ... } = context`: the definition that runAgent put
\* into the AgentRunContext when the run started
ContextAgent(r) == agentOf[r]

YieldPoints ==
  {"y_preerr", "y_status", "y_cancelled", "y_thinking", "y_content",
   "y_limit", "y_confirm", "y_toolcall_step", "y_toolcall_evt",
   "y_toolerr_step", "y_toolres_step", "y_toolres_evt", "y_errstep",
   "y_response", "y_done"}

\* the consumer pulls the next event: the generator resumes from the yield
\* it is suspended at and runs to its next suspension point
Pull(r) ==
  /\ pc[r] \in YieldPoints
  /\ LET g == Frame(r)
         agent == ContextAgent(r)
         aborted == abort[r]
     IN Commit(r,
          CASE pc[r] = "y_preerr" -> At(g, "ended")
            [] pc[r] = "y_status" -> LoopTop(g, agent, aborted)
            [] pc[r] = "y_cancelled" -> AfterLoop(g)
            [] pc[r] = "y_thinking" -> CallModel(g)
            [] pc[r] = "y_content" -> At(g, "await_read")
            [] pc[r] = "y_limit" -> AfterLimit(g, agent, aborted)
            [] pc[r] = "y_confirm" -> ExecuteToolsFrom(g, agent, aborted, 1)
            [] pc[r] = "y_toolcall_step" -> ToolCallEvent(g)
            [] pc[r] = "y_toolcall_evt" -> Dispatch(g)
            [] pc[r] = "y_toolerr_step" -> AfterToolOutcome(g, agent, aborted)
            [] pc[r] = "y_toolres_step" -> ToolResultEvent(g)
            [] pc[r] = "y_toolres_evt" -> AfterToolOutcome(g, agent, aborted)
            [] pc[r] = "y_errstep" -> AfterErrStep(g, agent, aborted)
            [] pc[r] = "y_response" -> AfterLoop(g)
            [] pc[r] = "y_done" -> At(g, "ended"))
  /\ UNCHANGED <<env, agentOf, abort, request, cancelOk>>

\* the fetch of chatCompletion settles: it rejects (network error, non-2xx
\* status, its own timeout) or resolves with a response whose body is read
ModelResponds(r) ==
  /\ pc[r] = "await_model"
  /\ \/ Commit(r, LoopCatch(Frame(r), ModelErrMsg))
     \/ /\ upstream # "down"
        /\ Commit(r, At(Frame(r), "await_read"))
  /\ UNCHANGED <<env, agentOf, abort, request, cancelOk>>

\* reader.read() settles: a content delta, a delta with tool calls, the end
\* of the body, or a read error
StreamDelivers(r) ==
  /\ pc[r] = "await_read"
  /\ LET g == Frame(r)
     IN \/ /\ upstream = "up"
           /\ g.loc.deltas < MaxDeltas
           /\ \E t \in Tokens :
                Commit(r, At([g EXCEPT
                                !.loc.accumulatedContent = Append(@, t),
                                !.loc.deltas = @ + 1,
                                !.events = Append(@, [type |-> "content",
                                                      content |-> <<t>>])],
                             "y_content"))
        \/ /\ upstream \in {"up", "calls", "outside"}
           /\ g.loc.deltas < MaxDeltas
           /\ \E cs \in IF upstream = "up" THEN CallLists
                       ELSE IF upstream = "calls" THEN SingleCalls
                       ELSE OutsideCalls :
                Commit(r, [g EXCEPT
                             !.loc.deltas = @ + 1,
                             !.loc.assistantMessage =
                               [role |-> "assistant",
                                content |-> g.loc.accumulatedContent,
                                tool_calls |-> WithIds(cs)]])
        \/ Commit(r, StreamEnd(g, ContextAgent(r), abort[r]))
        \/ Commit(r, LoopCatch(g, ModelErrMsg))
  /\ UNCHANGED <<env, agentOf, abort, request, cancelOk>>

\* the run-timeout timer fires: abortController.abort().  timer[r] says
\* that the timeout is scheduled and was not cleared; abort() is idempotent,
\* so the flag is left as it is when the timer has fired.
Timeout(r) ==
  /\ timer[r]
  /\ abort' = [abort EXCEPT ![r] = TRUE]
  /\ UNCHANGED <<env, activeRuns, run, agentOf, timer, pc, loc, events,
                 request, cancelOk>>

\* cancelRun(runId) for the run of slot r
CancelRun(r) ==
  /\ pc[r] # "idle"
  /\ IF r \in activeRuns
       THEN /\ abort' = [abort EXCEPT ![r] = TRUE]
            /\ run' = [run EXCEPT ![r].status = "cancelled",
                                  ![r].endedAt = TRUE]
            /\ cancelOk' = [cancelOk EXCEPT ![r] = TRUE]
       ELSE UNCHANGED <<abort, run, cancelOk>>
  /\ UNCHANGED <<env, activeRuns, agentOf, timer, pc, loc, events, request>>

\* the caller drops the finished stream; the slot can hold a new run
Release(r) ==
  /\ pc[r] = "ended"
  /\ run' = [run EXCEPT ![r] = NoRun]
  /\ agentOf' = [agentOf EXCEPT ![r] = NoAgent]
  /\ abort' = [abort EXCEPT ![r] = FALSE]
  /\ timer' = [timer EXCEPT ![r] = FALSE]
  /\ pc' = [pc EXCEPT ![r] = "idle"]
  /\ loc' = [loc EXCEPT ![r] = NoLoc]
  /\ events' = [events EXCEPT ![r] = <<>>]
  /\ request' = [request EXCEPT ![r] = NoRequest]
  /\ cancelOk' = [cancelOk EXCEPT ![r] = FALSE]
  /\ UNCHANGED <<env, activeRuns>>

Next ==
  \E r \in Slots :
    \/ RunAgent(r)
    \/ Pull(r)
    \/ ModelResponds(r)
    \/ StreamDelivers(r)
    \/ Timeout(r)
    \/ CancelRun(r)
    \/ Release(r)

Spec == Init /\ [][Next]_vars

SpecAdmit == InitAdmit /\ [][Next]_vars

\* The consumer keeps draining the stream, and the fetch of chatCompletion
\* settles (fetchWithTimeout aborts it after CHAT_TIMEOUT_MS).  Nothing
\* bounds a read of the response body, the timer and cancelRun.
Fairness ==
  \A r \in Slots : WF_vars(Pull(r)) /\ WF_vars(ModelResponds(r))

FairSpec == Init /\ [][Next]_vars /\ Fairness

\* ------------------------------------------------------------------------
\* Observations used by the properties
\* ------------------------------------------------------------------------

\* positions of the done events in the stream of slot r
DoneIdx(r) == {i \in DOMAIN events[r] : events[r][i].type = "done"}

HasDone(r) == DoneIdx(r) # {}

\* the run carried by the done event
DoneRun(r) == events[r][CHOOSE i \in DoneIdx(r) : TRUE].run

\* the invocation passed the preconditions
Started(r) == events[r] # <<>> /\ events[r][1].type = "status"

\* the invocation failed a precondition
Rejected(r) == events[r] # <<>> /\ events[r][1].type = "error"

\* the turn in which step i was recorded: the number of "Turn n" thinking
\* steps up to it
TurnOfStep(steps, i) ==
  Cardinality({j \in 1..i : /\ steps[j].type = "thinking"
                            /\ steps[j].content[1] = "Turn"})

\* the steps that record the outcome of a call handed to the executor
ToolOutcomeSteps(steps) ==
  {i \in DOMAIN steps : /\ steps[i].type \in {"error", "tool_result"}
                        /\ steps[i].toolName # None}

ToolErrorSteps(steps) ==
  {i \in ToolOutcomeSteps(steps) : steps[i].error # None}

SetMin(S) == CHOOSE x \in S : \A y \in S : x <= y

\* ------------------------------------------------------------------------
\* Properties
\* ------------------------------------------------------------------------

\* C1: once the status of a run is completed, failed or cancelled, no step
\* of the run loop and no cancelRun call changes it
C1_TerminalStatusIsFinal ==
  [][\A r \in Slots :
       (run[r].status \in TerminalStatuses /\ pc[r] # "ended")
         => run'[r].status = run[r].status]_vars

\* C2: with stopOnError, once a tool call yielded an error no further turn is
\* started, and the run ends failed with that tool's error (stated for runs
\* whose cancellation signal is not set)
C2_StopOnErrorEndsRun ==
  \A r \in Slots :
    LET steps == run[r].steps
        errs == ToolErrorSteps(steps)
    IN (agentOf[r].behavior.stopOnError /\ errs # {} /\ ~abort[r])
         => LET i == SetMin(errs)
            IN /\ run[r].currentTurn = TurnOfStep(steps, i)
               /\ HasDone(r) => /\ DoneRun(r).status = "failed"
                                /\ DoneRun(r).error = steps[i].error

\* C3: in every turn at most maxToolCallsPerTurn calls are handed to the
\* executor, and a truncated turn carries the thinking step that notes it
C3_CallsPerTurnBounded ==
  \A r \in Slots :
    LET steps == run[r].steps
        max == agentOf[r].behavior.maxToolCallsPerTurn
    IN /\ \A t \in 1..run[r].currentTurn :
            Cardinality({i \in ToolOutcomeSteps(steps) :
                           TurnOfStep(steps, i) = t}) <= max
       /\ (/\ pc[r] \in {"y_limit", "y_confirm", "y_toolcall_step",
                         "y_toolcall_evt", "y_toolerr_step"}
           /\ Len(loc[r].toolCalls) > max)
            => \E j \in DOMAIN steps :
                 /\ steps[j].type = "thinking"
                 /\ steps[j].content[1] = "Limiting tool calls"
                 /\ TurnOfStep(steps, j) = run[r].currentTurn

\* C4: if cancelRun returned true for a run, the done event of the run
\* carries the status cancelled
C4_CancelledRunEndsCancelled ==
  \A r \in Slots :
    (cancelOk[r] /\ HasDone(r)) => DoneRun(r).status = "cancelled"

\* C5: once the cancellation signal of an active run is set, the run
\* eventually emits done with a terminal status, also when the response body
\* delivers nothing more
C5_CancellationIsPrompt ==
  \A r \in Slots :
    (abort[r] /\ r \in activeRuns)
      ~> (HasDone(r) /\ DoneRun(r).status \in TerminalStatuses)

\* the messages of the four precondition failures
PreconditionMessages ==
  {"Agent not found", "Maximum concurrent agent runs reached",
   "Server not found", "No model specified for agent run"}

CapacityError ==
  [type |-> "error", error |-> "Maximum concurrent agent runs reached"]

\* the request of slot r names an unknown agent, an unknown server or no
\* resolvable model
BadTarget(r) ==
  \/ request[r].agentId \notin DOMAIN agents
  \/ request[r].serverId \notin ServerIds
  \/ ResolveModel(agents[request[r].agentId], request[r].model) = ""

\* C6 as stated: the active set never exceeds maxConcurrentRuns, and every
\* request that arrives at capacity yields the single capacity error and
\* adds nothing
C6_CapacityAsStated ==
  /\ [](Cardinality(activeRuns) <= config.maxConcurrentRuns)
  /\ [][\A r \in Slots :
          (/\ pc[r] = "idle"
           /\ pc'[r] # "idle"
           /\ Cardinality(activeRuns) >= config.maxConcurrentRuns)
            => (events'[r] = <<CapacityError>> /\ activeRuns' = activeRuns)]_vars

\* C6 amended: the same, for the requests that name a registered agent; at
\* capacity a request for an unregistered agent yields "Agent not found"
C6_CapacityBound ==
  /\ [](Cardinality(activeRuns) <= config.maxConcurrentRuns)
  /\ [][\A r \in Slots :
          (/\ pc[r] = "idle"
           /\ pc'[r] # "idle"
           /\ Cardinality(activeRuns) >= config.maxConcurrentRuns)
            => /\ activeRuns' = activeRuns
               /\ Len(events'[r]) = 1
               /\ IF request'[r].agentId \in DOMAIN agents
                    THEN events'[r][1] = CapacityError
                    ELSE events'[r][1] =
                           [type |-> "error", error |-> "Agent not found"]]_vars

C6_Witness ==
  \E r \in Slots :
    /\ Cardinality(activeRuns) = config.maxConcurrentRuns
    /\ events[r] = <<CapacityError>>
    /\ request[r].agentId \in DOMAIN agents

\* C7: the stream of a run that passed the preconditions starts with
\* status(executing) and holds exactly one done event, the last event, which
\* carries the run with a terminal status
C7_StreamShape ==
  \A r \in Slots :
    Started(r) =>
      /\ events[r][1] = [type |-> "status", status |-> "executing"]
      /\ Cardinality(DoneIdx(r)) <= 1
      /\ HasDone(r) => /\ DoneIdx(r) = {Len(events[r])}
                       /\ DoneRun(r) = run[r]
                       /\ DoneRun(r).status \in TerminalStatuses
      /\ pc[r] = "ended" => HasDone(r)

C7_Witness ==
  \E r \in Slots :
    /\ pc[r] = "ended"
    /\ HasDone(r)
    /\ DoneRun(r).status = "completed"
    /\ DoneRun(r).currentTurn = MaxTurns

\* C8 as stated: a run that ends failed has emitted an event of type error
\* before done
C8_ErrorEventBeforeDone ==
  \A r \in Slots :
    (HasDone(r) /\ DoneRun(r).status = "failed")
      => \E i \in DOMAIN events[r] :
           /\ events[r][i].type = "error"
           /\ \A d \in DoneIdx(r) : i < d

\* C8 amended: a run that ends failed has emitted, before done, a step event
\* whose step has type error and carries run.error; it has emitted no event
\* of type error
C8_ErrorStepBeforeDone ==
  \A r \in Slots :
    (HasDone(r) /\ DoneRun(r).status = "failed")
      => /\ \E i \in DOMAIN events[r] :
              /\ events[r][i].type = "step"
              /\ events[r][i].step.type = "error"
              /\ events[r][i].step.error = DoneRun(r).error
              /\ \A d \in DoneIdx(r) : i < d
         /\ \A i \in DOMAIN events[r] : events[r][i].type # "error"

C8_Witness ==
  \E r \in Slots :
    /\ HasDone(r)
    /\ DoneRun(r).status = "failed"
    /\ DoneRun(r).error = ModelErrMsg

\* C9: a request that fails a precondition yields exactly one error event
\* and no done event; no run is registered for it, no timer is armed and no
\* model call is made; a request with an unknown agent, an unknown server or
\* no resolvable model is such a request
C9_PreconditionFailure ==
  /\ \A r \in Slots :
       /\ (pc[r] # "idle" /\ BadTarget(r)) => Rejected(r)
       /\ Rejected(r) =>
            /\ Len(events[r]) = 1
            /\ events[r][1].error \in PreconditionMessages
            /\ r \notin activeRuns
            /\ ~timer[r]
            /\ loc[r].modelCalls = 0
            /\ run[r] = NoRun
  /\ activeRuns \subseteq {r \in Slots : Started(r)}

C9_Witness ==
  \E r, q \in Slots :
    /\ pc[r] = "ended"
    /\ events[r] = <<CapacityError>>
    /\ pc[q] = "ended"
    /\ events[q] = <<[type |-> "error", error |-> "Server not found"]>>

\* C10: currentTurn never exceeds the agent's maxTurns, and a run makes at
\* most maxTurns model invocations
C10_TurnBound ==
  \A r \in Slots :
    /\ run[r].currentTurn <= agentOf[r].behavior.maxTurns
    /\ loc[r].modelCalls <= agentOf[r].behavior.maxTurns

C10_Witness ==
  \E r \in Slots :
    /\ agentOf[r].behavior.maxTurns = MaxTurns
    /\ run[r].currentTurn = MaxTurns
    /\ loc[r].modelCalls = MaxTurns

\* the steps that record a call handed to executeTools
ToolCallSteps(steps) == {i \in DOMAIN steps : steps[i].type = "tool_call"}

\* the number of calls in the assistant message that the stream of slot r
\* has assembled so far (the last delta that carried tool_calls)
PendingCalls(r) ==
  IF hasToolCalls(loc[r].assistantMessage)
    THEN Len(loc[r].assistantMessage.tool_calls)
    ELSE 0

\* the step of slot r is the end of a turn's stream: an assistant message
\* is pushed to the history
PushesAssistant(r) ==
  /\ pc[r] = "await_read"
  /\ Len(run'[r].messages) = Len(run[r].messages) + 1
  /\ run'[r].messages[Len(run'[r].messages)].role = "assistant"

\* C11: totalToolCalls grows, at the end of the stream of a turn, by the
\* number of calls the model returned in the turn (the tool_calls of the
\* assembled assistant message, before the truncation), and changes at no
\* other step; so it is at least the number of calls executed
C11_TotalCountsReturnedCalls ==
  /\ [](\A r \in Slots :
          run[r].totalToolCalls >= Cardinality(ToolCallSteps(run[r].steps)))
  /\ [][\A r \in Slots :
          pc'[r] # "idle" =>
            run'[r].totalToolCalls =
              run[r].totalToolCalls
                + (IF PushesAssistant(r) THEN PendingCalls(r) ELSE 0)]_vars

C11_Witness ==
  \E r \in Slots :
    /\ pc[r] = "ended"
    /\ run[r].totalToolCalls = MaxCalls
    /\ MaxCalls > agentOf[r].behavior.maxToolCallsPerTurn
    /\ \E j \in DOMAIN run[r].steps :
         run[r].steps[j].content[1] = "Limiting tool calls"

RECURSIVE ContentFrom(_, _)
\* the concatenation, in emission order, of the content events at the
\* positions k.. of the stream evs
ContentFrom(evs, k) ==
  IF k > Len(evs) THEN <<>>
  ELSE (IF evs[k].type = "content" THEN evs[k].content ELSE <<>>)
         \o ContentFrom(evs, k + 1)

\* positions of the step events that open a turn
TurnEvents(evs) ==
  {i \in DOMAIN evs : /\ evs[i].type = "step"
                      /\ evs[i].step.type = "thinking"
                      /\ evs[i].step.content[1] = "Turn"}

SetMax(S) == CHOOSE x \in S : \A y \in S : x >= y

\* the content events emitted during the last turn of slot r, concatenated
FinalTurnContent(r) == ContentFrom(events[r], SetMax(TurnEvents(events[r])))

ResponseSteps(steps) == {i \in DOMAIN steps : steps[i].type = "response"}

\* C12: a run that completed through a turn without tool calls (it recorded
\* a response step) has as output the concatenation of the content events of
\* that turn, and the response step is its last step and has that content
C12_OutputIsFinalTurnContent ==
  \A r \in Slots :
    LET steps == run[r].steps
    IN ResponseSteps(steps) # {} =>
         /\ ResponseSteps(steps) = {Len(steps)}
         /\ run[r].output = FinalTurnContent(r)
         /\ steps[Len(steps)].content = run[r].output
         /\ run[r].status \in {"completed", "cancelled"}
         /\ ~cancelOk[r] => run[r].status = "completed"

C12_Witness ==
  \E r \in Slots :
    /\ pc[r] = "ended"
    /\ run[r].status = "completed"
    /\ run[r].currentTurn = 2
    /\ ResponseSteps(run[r].steps) # {}
    /\ run[r].output # <<>>
    /\ Len(ContentFrom(events[r], 1)) > Len(run[r].output)

\* the history of slot r holds an assistant message that carries tool calls
ToolCallingTurn(r) ==
  \E i \in DOMAIN run[r].messages : hasToolCalls(run[r].messages[i])

\* the run of slot r ended through the post-loop fallback: done carries
\* completed although no turn recorded a response step
FallbackDone(r) ==
  /\ HasDone(r)
  /\ DoneRun(r).status = "completed"
  /\ ResponseSteps(DoneRun(r).steps) = {}

\* C13: a run that left the turn loop with a status other than completed or
\* failed ends completed with the content of the last message of the history
\* as output; with maxTurns = 1 and a tool-calling first turn, currentTurn is
\* 1 and that last message is a tool message, not the assistant message
C13_FallbackOutput ==
  \A r \in Slots :
    /\ (HasDone(r) /\ ResponseSteps(DoneRun(r).steps) = {}
          /\ events[r][Len(events[r]) - 1] #
               [type |-> "status", status |-> "cancelled"])
         => DoneRun(r).status \in {"completed", "failed"}
    /\ FallbackDone(r) =>
         LET messages == DoneRun(r).messages
         IN /\ DoneRun(r).output = LastContent(messages)
            /\ (agentOf[r].behavior.maxTurns = 1 /\ ToolCallingTurn(r))
                 => /\ DoneRun(r).currentTurn = 1
                    /\ messages[Len(messages)].role = "tool"

\* C14: a run whose done event carries the status cancelled has no error set
C14_CancelledHasNoError ==
  \A r \in Slots :
    (HasDone(r) /\ DoneRun(r).status = "cancelled") => DoneRun(r).error = None

\* the tool messages of a history, in order
ToolMessages(messages) == SelectSeq(messages, LAMBDA m : m.role = "tool")

\* the tool_call steps of slot r whose call has come back from the executor,
\* in order (positions in run.steps)
SettledCalls(r) ==
  {i \in ToolCallSteps(run[r].steps) : i < Len(run[r].steps)}

\* C15: the step after the tool_call step of an executed call is the
\* tool_result step of the same tool, so no other tool_call step comes in
\* between; and the history holds exactly one tool message per executed
\* call, in call order, with the name of the call's tool
C15_ToolStepOrder ==
  \A r \in Slots :
    LET steps == run[r].steps
        msgs == ToolMessages(run[r].messages)
    IN /\ \A i \in SettledCalls(r) :
            /\ steps[i + 1].type = "tool_result"
            /\ steps[i + 1].toolName = steps[i].toolName
       /\ Len(msgs) = Cardinality(SettledCalls(r))
       /\ \A i \in SettledCalls(r) :
            msgs[Cardinality({j \in SettledCalls(r) : j <= i})].name
              = steps[i].toolName

\* the steps carried by the step events of a stream, in emission order
StepsOfEvents(evs) ==
  LET se == SelectSeq(evs, LAMBDA e : e.type = "step")
  IN [i \in DOMAIN se |-> se[i].step]

\* C16: run.steps is exactly the sequence of the steps of the step events
\* emitted so far, each step has its (0-based) position as index, and a step
\* of the run only ever appends one step to run.steps
C16_StepsAppendOnly ==
  /\ [](\A r \in Slots :
          /\ run[r].steps = StepsOfEvents(events[r])
          /\ \A i \in DOMAIN run[r].steps : run[r].steps[i].index = i - 1)
  /\ [][\A r \in Slots :
          pc'[r] # "idle" =>
            \/ run'[r].steps = run[r].steps
            \/ /\ Len(run'[r].steps) = Len(run[r].steps) + 1
               /\ SubSeq(run'[r].steps, 1, Len(run[r].steps)) = run[r].steps
               /\ Len(events'[r]) = Len(events[r]) + 1
               /\ events'[r][Len(events'[r])] =
                    [type |-> "step",
                     step |-> run'[r].steps[Len(run'[r].steps)]]]_vars

C16_Witness ==
  \E r \in Slots :
    /\ pc[r] = "ended"
    /\ Len(run[r].steps) >= 5
    /\ \E i, j \in DOMAIN run[r].steps :
         /\ run[r].steps[i].type = "tool_call"
         /\ run[r].steps[j].type = "response"

\* getRunStatus(runId): the run of an active context, undefined otherwise
getRunStatus(r) == IF r \in activeRuns THEN run[r] ELSE NoRun

\* listActiveRuns(): the runs of the active contexts
listActiveRuns == {run[r] : r \in activeRuns}

\* C17: at every suspension point, where another caller can run, the runs
\* that listActiveRuns and getRunStatus return have a non-terminal status,
\* and a run whose stream has ended is not among them
C17_ActiveRunsAreLive ==
  /\ \A a \in listActiveRuns : a.status \notin TerminalStatuses
  /\ \A r \in Slots :
       /\ getRunStatus(r).status \notin TerminalStatuses
       /\ pc[r] = "ended" => r \notin activeRuns

\* The consumer keeps draining the stream, every fetch of chatCompletion
\* settles and every read of the response body settles (the deltas of a run
\* are finitely many, so the body ends or the read fails).  Tool executions
\* are part of the Pull steps.
Liveness ==
  \A r \in Slots :
    /\ WF_vars(Pull(r))
    /\ WF_vars(ModelResponds(r))
    /\ WF_vars(StreamDelivers(r))

\* one caller, an agent that may use all its turns, any stopOnError and
\* autoContinue, a completion endpoint that answers with single tool calls
InitLive ==
  /\ \E b \in {x \in Behaviors : x.maxTurns = MaxTurns
                                  /\ ~x.requireConfirmation} :
       agents = [a \in AgentIds |-> AgentDefinition(a, b, "")]
  /\ config = [maxConcurrentRuns |-> 1]
  /\ upstream = "calls"
  /\ exec = NoExec
  /\ OthersIdle
  /\ callers = {1}
  /\ InitSlots

LiveSpec == InitLive /\ [][Next]_vars /\ Liveness

\* C18: a run that passed the preconditions eventually emits done, and has
\* made at most maxTurns model invocations by then
C18_StartedRunTerminates ==
  \A r \in Slots :
    Started(r) ~> (/\ HasDone(r)
                   /\ DoneRun(r).status \in TerminalStatuses
                   /\ loc[r].modelCalls <= agentOf[r].behavior.maxTurns)

C18_Witness ==
  \E r \in Slots :
    /\ HasDone(r)
    /\ loc[r].modelCalls = MaxTurns
    /\ ToolErrorSteps(run[r].steps) # {}
    /\ \E i \in DOMAIN run[r].steps :
         run[r].steps[i].type = "error" /\ run[r].steps[i].toolName = None

\* ------------------------------------------------------------------------
\* executeToolCalls on its own: initial states and actions
\* ------------------------------------------------------------------------

\* the state of the orchestrator, which executeToolCalls does not touch
runVars == <<agents, config, upstream, callers, activeRuns, run, agentOf,
             abort, timer, pc, loc, events, request, cancelOk>>

\* executeToolCalls is about to be called with a list of raw tool calls and
\* options; no agent run exists
InitExec ==
  /\ agents = [a \in AgentIds |-> NoAgent]
  /\ config = [maxConcurrentRuns |-> 1]
  /\ upstream = "down"
  /\ callers = {}
  /\ InitSlots
  /\ OthersIdle
  /\ \E kinds \in KindLists, mc \in 1..MaxConcurrent, coe \in BOOLEAN :
       exec = [NoExec EXCEPT
                 !.pc = "idle",
                 !.kinds = kinds,
                 !.toolCalls = [i \in DOMAIN kinds |-> CallOfKind(kinds[i], i)],
                 !.opts = [maxConcurrent |-> mc, continueOnError |-> coe]]

\* AfterBatch that also counts the parse failures as errors of the batch
AfterBatch_ParseFailureBreaks(e) ==
  IF Pending(e) # {} THEN e
  ELSE LET placed == [e EXCEPT !.results =
                        PlaceResults(e.results, e.batch, e.batchResults, 1)]
           hasError == \E i \in DOMAIN placed.results :
                         placed.results[i].error # None
       IN IF ~e.opts.continueOnError /\ hasError
            THEN [placed EXCEPT !.pc = "returned"]
            ELSE StartBatch(placed, e.i + e.opts.maxConcurrent)

\* AfterBatch that goes on to the next batch whatever the results are
AfterBatch_NeverBreaks(e) ==
  IF Pending(e) # {} THEN e
  ELSE StartBatch([e EXCEPT !.results =
                     PlaceResults(e.results, e.batch, e.batchResults, 1)],
                  e.i + e.opts.maxConcurrent)

\* after Promise.all of a batch resolved: the results are placed, the batch
\* loop breaks on an error unless continueOnError, else the next batch starts
AfterBatch(e) ==
  IF Pending(e) # {} THEN e
  ELSE LET placed == [e EXCEPT !.results =
                        PlaceResults(e.results, e.batch, e.batchResults, 1)]
           hasError == \E b \in DOMAIN e.batchResults :
                         e.batchResults[b].error # None
       IN IF ~e.opts.continueOnError /\ hasError
            THEN [placed EXCEPT !.pc = "returned"]
            ELSE StartBatch(placed, e.i + e.opts.maxConcurrent)

\* executeWithTimeout of the call at batch position b: execute(call) wins
\* the race
SettleResult(e, b) ==
  LET index == e.batch[b]
      call == parseToolCallArguments(e.toolCalls[index]).call
  IN AfterBatch([e EXCEPT
                   !.batchResults =
                     ArraySet(@, b, ExecuteOutcome(call, e.kinds[index])),
                   !.inTime = @ \cup {index}])

\* SettleTimeout with one timer for the batch: when it fires, every call of
\* the batch gets the timeout result
SettleTimeout_WholeBatch(e, b) ==
  LET all == [c \in DOMAIN e.batch |->
                TimeoutResult(parseToolCallArguments(
                                e.toolCalls[e.batch[c]]).call)]
  IN AfterBatch([e EXCEPT !.batchResults = all])

\* executeWithTimeout of the call at batch position b: the timer wins the
\* race and the catch block builds the result
SettleTimeout(e, b) ==
  LET call == parseToolCallArguments(e.toolCalls[e.batch[b]]).call
  IN AfterBatch([e EXCEPT !.batchResults =
                            ArraySet(@, b, TimeoutResult(call))])

\* executeToolCalls up to its first await: every call is parsed, the parse
\* failures get their result, the first batch starts
ExecStart ==
  /\ exec.pc = "idle"
  /\ LET toolCalls == exec.toolCalls
         parsedCalls == [i \in DOMAIN toolCalls |->
                           parseToolCallArguments(toolCalls[i])]
         validCalls == SelectSeq([i \in DOMAIN toolCalls |-> i],
                                 LAMBDA i : parsedCalls[i].ok)
         results == [i \in {j \in DOMAIN toolCalls : ~parsedCalls[j].ok} |->
                       ParseFailure(toolCalls[i])]
     IN exec' = StartBatch([exec EXCEPT !.validCalls = validCalls,
                                        !.results = results], 0)
  /\ UNCHANGED <<runVars, others>>

\* toolRegistry.execute settles for the call at batch position b before its
\* timer is due
HandlerSettles(b) ==
  /\ exec.pc = "batch"
  /\ b \in Pending(exec)
  /\ exec.elapsed < ExecTimeout
  /\ Settles(parseToolCallArguments(exec.toolCalls[exec.batch[b]]).call,
             exec.kinds[exec.batch[b]])
  /\ exec' = SettleResult(exec, b)
  /\ UNCHANGED <<runVars, others>>

\* time passes while calls are pending and no timer is due
Tick ==
  /\ exec.pc = "batch"
  /\ Pending(exec) # {}
  /\ exec.elapsed < ExecTimeout
  /\ exec' = [exec EXCEPT !.elapsed = @ + 1]
  /\ UNCHANGED <<runVars, others>>

\* the timer of the call at batch position b fires
TimerFires(b) ==
  /\ exec.pc = "batch"
  /\ b \in Pending(exec)
  /\ exec.elapsed = ExecTimeout
  /\ exec' = SettleTimeout(exec, b)
  /\ UNCHANGED <<runVars, others>>

NextExec ==
  \/ ExecStart
  \/ \E b \in 1..MaxConcurrent : HandlerSettles(b)
  \/ Tick
  \/ \E b \in 1..MaxConcurrent : TimerFires(b)

ExecSpec == InitExec /\ [][NextExec]_vars

\* the calls of the input list whose arguments parse
ValidIndices == {i \in DOMAIN exec.toolCalls :
                   parseToolCallArguments(exec.toolCalls[i]).ok}

\* C19: with continueOnError, executeToolCalls returns an array with one
\* result per input call, and at every moment the result at index i carries
\* the id and the name of call i
C19_OneResultPerCall ==
  /\ \A i \in DOMAIN exec.results :
       /\ i \in DOMAIN exec.toolCalls
       /\ exec.results[i].toolCallId = exec.toolCalls[i].id
       /\ exec.results[i].name = exec.toolCalls[i].function.name
  /\ (exec.pc = "returned" /\ exec.opts.continueOnError)
       => /\ DOMAIN exec.results = DOMAIN exec.toolCalls
          /\ ArrayLength(exec.results) = Len(exec.toolCalls)

C19_Witness ==
  /\ exec.pc = "returned"
  /\ exec.opts.continueOnError
  /\ exec.opts.maxConcurrent = 2
  /\ Len(exec.toolCalls) = 3
  /\ exec.kinds[1] = "badjson"
  /\ exec.results[2].error = "timed out"
  /\ exec.results[3].error = None

\* C20: every executed call has the result of its own race: the result of
\* toolRegistry.execute when that settled before the call's timer was due,
\* the "timed out" error otherwise (always so for a handler that never
\* settles); a batch in flight never outlasts the timeout, because when the
\* timeout is reached the timer of every pending call fires
C20_PerCallTimeout ==
  /\ \A i \in DOMAIN exec.results \cap ValidIndices :
       LET call == parseToolCallArguments(exec.toolCalls[i]).call
       IN /\ i \in exec.inTime
               => exec.results[i] = ExecuteOutcome(call, exec.kinds[i])
          /\ i \notin exec.inTime => exec.results[i] = TimeoutResult(call)
          /\ exec.kinds[i] = "never" => exec.results[i].error = "timed out"
  /\ exec.elapsed <= ExecTimeout
  /\ exec.pc = "batch" =>
       /\ Pending(exec) # {}
       /\ exec.elapsed = ExecTimeout
            => \A b \in Pending(exec) : ENABLED TimerFires(b)

C20_Witness ==
  /\ exec.pc = "returned"
  /\ exec.opts.maxConcurrent = 2
  /\ Len(exec.validCalls) >= 2
  /\ exec.kinds[exec.validCalls[1]] = "never"
  /\ exec.results[exec.validCalls[1]].error = "timed out"
  /\ exec.validCalls[2] \in exec.inTime
  /\ exec.results[exec.validCalls[2]].error = None

\* the calls that were handed to executeWithTimeout so far: the members of
\* the batches that were sliced off validCalls
Dispatched ==
  LET n == exec.i + Len(exec.batch)
      m == IF n < Len(exec.validCalls) THEN n ELSE Len(exec.validCalls)
  IN {exec.validCalls[p] : p \in 1..m}

\* the calls of the input list whose arguments do not parse
InvalidIndices == DOMAIN exec.toolCalls \ ValidIndices

\* C21: once executeToolCalls is running, a call whose arguments are not
\* valid JSON has the parse-failure result at its own index and is never
\* handed to the registry; it does not keep the other calls from running:
\* when the function has returned, a valid call was left out only if
\* continueOnError is off and a result of an executed batch has an error
C21_ParseFailureIsPerCall ==
  /\ exec.pc \in {"batch", "returned"} =>
       \A k \in InvalidIndices :
         /\ k \in DOMAIN exec.results
         /\ exec.results[k] = ParseFailure(exec.toolCalls[k])
         /\ k \notin Dispatched
  /\ exec.pc = "returned" =>
       \/ /\ Dispatched = ValidIndices
          /\ ValidIndices \subseteq DOMAIN exec.results
       \/ /\ ~exec.opts.continueOnError
          /\ \E i \in Dispatched : exec.results[i].error # None

C21_Witness ==
  /\ exec.pc = "returned"
  /\ ~exec.opts.continueOnError
  /\ exec.opts.maxConcurrent = 1
  /\ Len(exec.toolCalls) = 3
  /\ exec.kinds[2] = "badjson"
  /\ exec.results[2].error = ParseFailMsg
  /\ exec.results[1].error = None
  /\ 3 \in DOMAIN exec.results
  /\ exec.results[3].error = None

\* the executed calls whose placed result carries an error
FailedCalls == {i \in Dispatched \cap DOMAIN exec.results :
                  exec.results[i].error # None}

\* C22: without continueOnError, as soon as the result of an executed call
\* carries an error the function has returned; the failed call belongs to the
\* last batch that was dispatched, every call of that batch has its result
\* (of the registry or of its timer), and nothing is dispatched afterwards
C22_StopsAfterFailingBatch ==
  /\ [](( ~exec.opts.continueOnError /\ FailedCalls # {})
          => /\ exec.pc = "returned"
             /\ FailedCalls \subseteq {exec.batch[b] : b \in DOMAIN exec.batch}
             /\ \A b \in DOMAIN exec.batch :
                  LET i == exec.batch[b]
                      call == parseToolCallArguments(exec.toolCalls[i]).call
                  IN /\ i \in DOMAIN exec.results
                     /\ exec.results[i] \in
                          {ExecuteOutcome(call, exec.kinds[i]),
                           TimeoutResult(call)}
             /\ Dispatched =
                  {exec.validCalls[p] : p \in 1..(exec.i + Len(exec.batch))})
  /\ [][exec.pc = "returned" => exec' = exec]_vars

C22_Witness ==
  /\ exec.pc = "returned"
  /\ ~exec.opts.continueOnError
  /\ exec.opts.maxConcurrent = 2
  /\ Len(exec.validCalls) = 3
  /\ exec.kinds[1] = "throws"
  /\ exec.results[1].error = "handler error"
  /\ exec.results[2].error = "timed out"
  /\ 3 \notin DOMAIN exec.results

\* ------------------------------------------------------------------------
\* ToolRegistry on its own: register, unregister, setEnabled and execute
\* ------------------------------------------------------------------------

RegNames == {"calculator", "shell"}

\* what a registered handler does when it is called: it resolves, it throws
\* an Error, or it throws a value that is not an Error
HandlerKinds == {"returns", "throws", "throwsValue"}

\* the value a handler of the kind throws
Thrown(kind) ==
  IF kind = "throws"
    THEN [isError |-> TRUE, message |-> "handler error"]
    ELSE [isError |-> FALSE, message |-> "boom"]

NotFoundMsg(name) == <<"Tool", name, "not found">>

DisabledMsg(name) == <<"Tool", name, "is disabled">>

UnknownErrorMsg == "Unknown error"

\* the result execute builds in its catch block
CaughtResult(call, thrown) ==
  [toolCallId |-> call.id, name |-> call.name, result |-> "null",
   error |-> IF thrown.isError THEN thrown.message ELSE UnknownErrorMsg]

\* execute that does not look at the enabled flag
ExecuteLookup_IgnoresEnabled(tools, call) ==
  IF call.name \notin DOMAIN tools THEN "notfound" ELSE "invoke"

\* the two checks of execute that precede the call of the handler
ExecuteLookup(tools, call) ==
  IF call.name \notin DOMAIN tools THEN "notfound"
  ELSE IF ~tools[call.name].enabled THEN "disabled"
  ELSE "invoke"

\* the registry is empty and no execute is in progress
InitReg ==
  /\ agents = [a \in AgentIds |-> NoAgent]
  /\ config = [maxConcurrentRuns |-> 1]
  /\ upstream = "down"
  /\ callers = {}
  /\ InitSlots
  /\ exec = NoExec
  /\ retry = NoRetry
  /\ window = NoWindow
  /\ http = NoHttp
  /\ reg = [NoReg EXCEPT !.pc = "idle"]

regFrame == <<runVars, exec, retry, window, http>>

\* register(func, handler, options): sets the entry of func.name
register(name, handler, enabled) ==
  /\ reg.pc # "off"
  /\ reg' = [reg EXCEPT
               !.tools = [n \in DOMAIN reg.tools \cup {name} |->
                            IF n = name
                              THEN [enabled |-> enabled, handler |-> handler]
                              ELSE reg.tools[n]]]
  /\ UNCHANGED regFrame

\* unregister(name) of a registered name
unregister(name) ==
  /\ reg.pc # "off"
  /\ name \in DOMAIN reg.tools
  /\ reg' = [reg EXCEPT
               !.tools = [n \in DOMAIN reg.tools \ {name} |-> reg.tools[n]]]
  /\ UNCHANGED regFrame

\* setEnabled(name, enabled) of a registered name
setEnabled(name, enabled) ==
  /\ reg.pc # "off"
  /\ name \in DOMAIN reg.tools
  /\ reg' = [reg EXCEPT !.tools[name].enabled = enabled]
  /\ UNCHANGED regFrame

\* execute(call) up to its first suspension: the two checks and, if they
\* pass, the call of the handler
execute(call) ==
  /\ reg.pc = "idle"
  /\ LET look == ExecuteLookup(reg.tools, call) IN
       reg' = IF look = "notfound"
                THEN [reg EXCEPT
                        !.pc = "returned", !.call = call, !.invoked = 0,
                        !.running = "none",
                        !.result = [toolCallId |-> call.id,
                                    name |-> call.name, result |-> "null",
                                    error |-> NotFoundMsg(call.name)]]
              ELSE IF look = "disabled"
                THEN [reg EXCEPT
                        !.pc = "returned", !.call = call, !.invoked = 0,
                        !.running = "none",
                        !.result = [toolCallId |-> call.id,
                                    name |-> call.name, result |-> "null",
                                    error |-> DisabledMsg(call.name)]]
              ELSE [reg EXCEPT
                      !.pc = "handler", !.call = call, !.invoked = 1,
                      !.running = reg.tools[call.name].handler,
                      !.result = NoResult]
  /\ UNCHANGED regFrame

\* the awaited handler settles: execute resumes in its try or in its catch
ExecuteResumes ==
  /\ reg.pc = "handler"
  /\ reg' = [reg EXCEPT
               !.pc = "returned",
               !.result =
                 IF reg.running = "returns"
                   THEN [toolCallId |-> reg.call.id, name |-> reg.call.name,
                         result |-> "value", error |-> None]
                   ELSE CaughtResult(reg.call, Thrown(reg.running))]
  /\ UNCHANGED regFrame

\* the caller takes the result
ExecuteReturns ==
  /\ reg.pc = "returned"
  /\ reg' = [reg EXCEPT !.pc = "idle", !.call = NoReg.call,
                        !.running = "none", !.invoked = 0,
                        !.result = NoResult]
  /\ UNCHANGED regFrame

NextReg ==
  \/ \E n \in RegNames, h \in HandlerKinds, e \in BOOLEAN : register(n, h, e)
  \/ \E n \in RegNames : unregister(n)
  \/ \E n \in RegNames, e \in BOOLEAN : setEnabled(n, e)
  \/ \E n \in RegNames : execute([id |-> "call_1", name |-> n])
  \/ ExecuteResumes
  \/ ExecuteReturns

RegSpec == InitReg /\ [][NextReg]_vars

\* what a step of execute does, given the text that the error of a result
\* carries for a thrown value
ExecuteContract(ErrorText(_)) ==
  /\ (reg.pc = "idle" /\ reg'.pc # "idle") =>
       LET c == reg'.call
           t == reg.tools
       IN  /\ c.name \notin DOMAIN t =>
                 /\ reg'.pc = "returned"
                 /\ reg'.invoked = 0
                 /\ reg'.result = [toolCallId |-> c.id, name |-> c.name,
                                   result |-> "null",
                                   error |-> NotFoundMsg(c.name)]
           /\ (c.name \in DOMAIN t /\ ~t[c.name].enabled) =>
                 /\ reg'.pc = "returned"
                 /\ reg'.invoked = 0
                 /\ reg'.result = [toolCallId |-> c.id, name |-> c.name,
                                   result |-> "null",
                                   error |-> DisabledMsg(c.name)]
           /\ (c.name \in DOMAIN t /\ t[c.name].enabled) =>
                 /\ reg'.pc = "handler"
                 /\ reg'.invoked = 1
                 /\ reg'.running = t[c.name].handler
  /\ (reg.pc = "handler" /\ reg'.pc # "handler") =>
       /\ reg'.pc = "returned"
       /\ reg'.result.toolCallId = reg.call.id
       /\ reg'.result.name = reg.call.name
       /\ reg.running = "returns" =>
            reg'.result.result = "value" /\ reg'.result.error = None
       /\ reg.running # "returns" =>
            /\ reg'.result.result = "null"
            /\ reg'.result.error = ErrorText(Thrown(reg.running))
  /\ reg'.invoked > reg.invoked => reg.pc = "idle"

StatedErrorText(thrown) == thrown.message

CodedErrorText(thrown) ==
  IF thrown.isError THEN thrown.message ELSE UnknownErrorMsg

\* C23 as stated: execute never throws; an unregistered name gives a
\* 'not found' error result and a disabled tool an 'is disabled' error
\* result, both with result null; a handler that throws gives an error
\* result that carries the thrown message; the handler is invoked only if
\* the tool is registered and enabled when execute is called
C23_ErrorCarriesThrownMessage == [][ExecuteContract(StatedErrorText)]_vars

\* C23 as amended: the same, except that the error result carries the
\* message of the thrown value only if that value is an Error, and the
\* text "Unknown error" otherwise
C23_ExecuteNeverThrows == [][ExecuteContract(CodedErrorText)]_vars

C23_Witness ==
  /\ reg.pc = "returned"
  /\ reg.invoked = 1
  /\ reg.running = "throwsValue"
  /\ reg.result.error = UnknownErrorMsg
  /\ reg.call.name \notin DOMAIN reg.tools

\* ------------------------------------------------------------------------
\* withRetry on its own, as chat and listModels call it
\* ------------------------------------------------------------------------

MAX_RETRIES == 3

RETRY_BASE_DELAY_MS == 1000

\* the statuses of a response that is not ok
FailureStatuses == {304, 400, 404, 499, 500, 503}

\* createLMStudioError(message, code, status) thrown by the operation for
\* a response that is not ok; an error without a status has status 0 here
StatusError(status) ==
  [name |-> "Error", code |-> "SERVER_ERROR", status |-> status]

\* the rejection of fetch: a failure of the network
NetworkError == [name |-> "TypeError", code |-> None, status |-> 0]

\* the rejection of fetch when the timer of fetchWithTimeout aborts it
AbortError == [name |-> "AbortError", code |-> None, status |-> 0]

\* createLMStudioError("Request timed out", "TIMEOUT")
TimeoutError == [name |-> "Error", code |-> "TIMEOUT", status |-> 0]

\* lastError of withRetry while it is null
NoError == [name |-> None, code |-> None, status |-> 0]

\* what one invocation of the operation can end with
Outcomes ==
  {[ok |-> TRUE, value |-> "data", error |-> NoError]}
    \cup {[ok |-> FALSE, value |-> None, error |-> e] :
            e \in {StatusError(s) : s \in FailureStatuses}
                    \cup {NetworkError, AbortError}}

\* catch block that treats every failure as one to retry
Classify_RetriesAll(error) == "retry"

\* the catch block of withRetry: what it does with the caught error
Classify(error) ==
  IF error.status # 0 /\ error.status >= 400 /\ error.status < 500
    THEN "rethrow"
  ELSE IF error.name = "AbortError" THEN "timeout"
  ELSE "retry"

\* the same delay before every retry
BackoffDelay_Constant(attempt) == RETRY_BASE_DELAY_MS

\* the delay before the retry that follows attempt `attempt`
BackoffDelay(attempt) == RETRY_BASE_DELAY_MS * 2^attempt

IdleRetry ==
  [pc |-> "idle", maxRetries |-> MAX_RETRIES, attempt |-> 0,
   lastError |-> NoError, calls |-> 0, outcomes |-> <<>>, waits |-> <<>>,
   result |-> None, error |-> NoError]

\* withRetry has not been called yet
InitRetry ==
  /\ agents = [a \in AgentIds |-> NoAgent]
  /\ config = [maxConcurrentRuns |-> 1]
  /\ upstream = "down"
  /\ callers = {}
  /\ InitSlots
  /\ exec = NoExec
  /\ reg = NoReg
  /\ window = NoWindow
  /\ http = NoHttp
  /\ retry = IdleRetry

retryFrame == <<runVars, exec, reg, window, http>>

\* withRetry(operation): the loop is entered and the operation invoked
WithRetry ==
  /\ retry.pc = "idle"
  /\ retry' = [retry EXCEPT !.pc = "awaiting", !.calls = 1]
  /\ UNCHANGED retryFrame

\* the awaited operation settles: return, or the catch block
OperationSettles(o) ==
  /\ retry.pc = "awaiting"
  /\ LET r == [retry EXCEPT !.outcomes = Append(@, o)] IN
       retry' =
         IF o.ok
           THEN [r EXCEPT !.pc = "returned", !.result = o.value]
         ELSE IF Classify(o.error) = "rethrow"
           THEN [r EXCEPT !.pc = "threw", !.lastError = o.error,
                          !.error = o.error]
         ELSE IF Classify(o.error) = "timeout"
           THEN [r EXCEPT !.pc = "threw", !.lastError = o.error,
                          !.error = TimeoutError]
         ELSE IF retry.attempt < retry.maxRetries - 1
           THEN [r EXCEPT !.pc = "waiting", !.lastError = o.error]
         ELSE [r EXCEPT !.pc = "threw", !.lastError = o.error,
                        !.attempt = @ + 1, !.error = o.error]
  /\ UNCHANGED retryFrame

\* the backoff timer fires: next iteration, the operation is invoked again
DelayElapses ==
  /\ retry.pc = "waiting"
  /\ retry' = [retry EXCEPT
                 !.pc = "awaiting",
                 !.waits = Append(@, BackoffDelay(retry.attempt)),
                 !.attempt = @ + 1,
                 !.calls = @ + 1]
  /\ UNCHANGED retryFrame

\* the caller has the result or the error; the next call may start
RetryDone ==
  /\ retry.pc \in {"returned", "threw"}
  /\ retry' = IdleRetry
  /\ UNCHANGED retryFrame

NextRetry ==
  \/ WithRetry
  \/ \E o \in Outcomes : OperationSettles(o)
  \/ DelayElapses
  \/ RetryDone

RetrySpec == InitRetry /\ [][NextRetry]_vars

\* a failure with a 4xx status, or an abort
Final(o) ==
  /\ ~o.ok
  /\ \/ o.error.status \in {400, 404, 499}
     \/ o.error.name = "AbortError"

Retryable(o) == ~o.ok /\ ~Final(o)

\* C24: an attempt that fails with a 4xx status or with an abort is the
\* last one: the operation has been invoked once more than there were
\* retryable failures before it, no delay follows it, and an error is
\* surfaced (the 4xx error itself, a TIMEOUT error for an abort)
C24_NoRetryAfterClientErrorOrAbort ==
  \A i \in DOMAIN retry.outcomes :
    Final(retry.outcomes[i]) =>
      /\ i = Len(retry.outcomes)
      /\ \A j \in 1..(i - 1) : Retryable(retry.outcomes[j])
      /\ retry.calls = i
      /\ Len(retry.waits) = i - 1
      /\ retry.pc = "threw"
      /\ retry.error = IF retry.outcomes[i].error.name = "AbortError"
                         THEN TimeoutError
                         ELSE retry.outcomes[i].error

C24_Witness ==
  /\ retry.pc = "threw"
  /\ Len(retry.outcomes) = 2
  /\ retry.outcomes[1].error.status = 500
  /\ retry.outcomes[2].error.status = 404

\* C25: at most MAX_RETRIES invocations; the delay between attempt k and
\* attempt k+1 is RETRY_BASE_DELAY_MS * 2^k; no delay after the final
\* attempt; the first success is returned and nothing is attempted after
\* it; after MAX_RETRIES retryable failures the error of the last attempt
\* is surfaced
C25_BoundedBackoff ==
  /\ retry.calls <= MAX_RETRIES
  /\ retry.waits = [k \in 1..Len(retry.waits) |->
                      RETRY_BASE_DELAY_MS * 2^(k - 1)]
  /\ retry.pc = "waiting" =>
       /\ Len(retry.outcomes) = retry.calls
       /\ Len(retry.waits) = retry.calls - 1
       /\ retry.calls < MAX_RETRIES
  /\ retry.pc \in {"awaiting", "returned", "threw"} =>
       Len(retry.waits) = retry.calls - 1
  /\ \A i \in DOMAIN retry.outcomes :
       retry.outcomes[i].ok =>
         /\ i = Len(retry.outcomes)
         /\ retry.calls = i
         /\ retry.pc = "returned"
         /\ retry.result = retry.outcomes[i].value
  /\ retry.pc = "returned" => retry.outcomes[Len(retry.outcomes)].ok
  /\ (/\ retry.pc \in {"returned", "threw"}
      /\ \A i \in DOMAIN retry.outcomes : Retryable(retry.outcomes[i])) =>
       /\ retry.pc = "threw"
       /\ retry.calls = MAX_RETRIES
       /\ Len(retry.outcomes) = MAX_RETRIES
       /\ retry.error = retry.outcomes[MAX_RETRIES].error

C25_Witness ==
  /\ retry.pc = "returned"
  /\ retry.calls = MAX_RETRIES
  /\ retry.waits = <<1000, 2000>>
  /\ retry.outcomes[1].error = NetworkError

\* ------------------------------------------------------------------------
\* applyContextWindow on its own
\* ------------------------------------------------------------------------

MaxMessages == 3

MaxBudget == 12

MaxMinMessages == 2

\* message contents of 2 and of 16 characters
Contents == {"hi", "a longer message"}

WindowMessages == [role : {"system", "user"}, content : Contents]

WindowInputs ==
  UNION {[1..n -> WindowMessages] : n \in 0..MaxMessages}

\* systemMessage while it is null
NoMessage == [role |-> "none", content |-> ""]

\* Math.ceil(text.length / 4)
estimateTokenCount(text) == (Len(text) + 3) \div 4

RECURSIVE calculateConversationTokens(_)
calculateConversationTokens(messages) ==
  IF messages = <<>> THEN 0
  ELSE estimateTokenCount(Head(messages).content) + 4
         + calculateConversationTokens(Tail(messages))

\* a loop test that lets one message more through the floor
Keeps_FloorOffByOne(availableTokens, msgTokens, kept, minMessages) ==
  availableTokens - msgTokens >= 0 \/ kept <= minMessages

\* a loop test that keeps a message only if it uses the budget up
Keeps_OnlyExactFit(availableTokens, msgTokens, kept, minMessages) ==
  availableTokens - msgTokens = 0 \/ kept < minMessages

\* a loop test that looks at the budget left before the message is counted
Keeps_BeforeCounting(availableTokens, msgTokens, kept, minMessages) ==
  availableTokens >= 0 \/ kept < minMessages

\* the test of the loop of truncateOldest
Keeps(availableTokens, msgTokens, kept, minMessages) ==
  availableTokens - msgTokens >= 0 \/ kept < minMessages

\* the loop of truncateOldest from message k down to the oldest
RECURSIVE TruncateFrom(_, _, _, _, _)
TruncateFrom(messages, k, availableTokens, result, minMessages) ==
  IF k = 0 THEN result
  ELSE LET msgTokens == estimateTokenCount(messages[k].content) + 4 IN
         IF Keeps(availableTokens, msgTokens, Len(result), minMessages)
           THEN TruncateFrom(messages, k - 1, availableTokens - msgTokens,
                             <<messages[k]>> \o result, minMessages)
           ELSE result

truncateOldest(systemMessage, messages, maxTokens, minMessages) ==
  LET availableTokens ==
        IF systemMessage # NoMessage
          THEN maxTokens - (estimateTokenCount(systemMessage.content) + 4)
          ELSE maxTokens
      result == TruncateFrom(messages, Len(messages), availableTokens, <<>>,
                             minMessages)
  IN  IF systemMessage # NoMessage THEN <<systemMessage>> \o result
      ELSE result

\* applyContextWindow for the strategies that end in truncateOldest
applyContextWindow(messages, opts) ==
  IF calculateConversationTokens(messages) <= opts.maxTokens THEN messages
  ELSE LET systemMessage ==
             IF /\ opts.keepSystemMessage
                /\ messages # <<>>
                /\ messages[1].role = "system"
               THEN messages[1] ELSE NoMessage
           workingMessages ==
             IF systemMessage # NoMessage THEN Tail(messages) ELSE messages
       IN  truncateOldest(systemMessage, workingMessages, opts.maxTokens,
                          opts.minMessages)

\* applyContextWindow is about to be called with a message list and options
InitWindow ==
  /\ agents = [a \in AgentIds |-> NoAgent]
  /\ config = [maxConcurrentRuns |-> 1]
  /\ upstream = "down"
  /\ callers = {}
  /\ InitSlots
  /\ exec = NoExec
  /\ reg = NoReg
  /\ retry = NoRetry
  /\ http = NoHttp
  /\ \E ms \in WindowInputs, mt \in 0..MaxBudget, mm \in 0..MaxMinMessages,
        ks \in BOOLEAN, st \in {"truncate-oldest", "summarize"} :
       window = [pc |-> "input", messages |-> ms,
                 opts |-> [maxTokens |-> mt, strategy |-> st,
                           minMessages |-> mm, keepSystemMessage |-> ks],
                 result |-> <<>>]

windowFrame == <<runVars, exec, reg, retry, http>>

ApplyContextWindow ==
  /\ window.pc = "input"
  /\ window' = [window EXCEPT
                  !.pc = "done",
                  !.result = applyContextWindow(window.messages, window.opts)]
  /\ UNCHANGED windowFrame

NextWindow == ApplyContextWindow

WindowSpec == InitWindow /\ [][NextWindow]_vars

\* the leading system message is the one applyContextWindow preserves
Preserved(messages, opts) ==
  /\ opts.keepSystemMessage
  /\ messages # <<>>
  /\ messages[1].role = "system"

\* the messages other than the preserved system message
Remaining(messages, opts) ==
  IF Preserved(messages, opts) THEN Tail(messages) ELSE messages

\* the estimated tokens of the n newest messages
RECURSIVE NewestTokens(_, _)
NewestTokens(messages, n) ==
  IF n = 0 THEN 0
  ELSE (Len(messages[Len(messages) - n + 1].content) + 3) \div 4 + 4
         + NewestTokens(messages, n - 1)

IsSuffix(body, rest) ==
  /\ Len(body) <= Len(rest)
  /\ \A j \in 1..Len(body) : body[j] = rest[Len(rest) - Len(body) + j]

\* C26: over the limit, the result is the preserved system message (if
\* any) followed by a suffix of the remaining messages; the suffix has at
\* least min(minMessages, number of remaining messages) messages; a message
\* beyond that floor is in the suffix only if it fitted the budget that
\* was left, and the suffix stops at the first one that does not fit
C26_TruncateOldestShape ==
  (/\ window.pc = "done"
   /\ NewestTokens(window.messages, Len(window.messages))
        > window.opts.maxTokens) =>
    LET ms == window.messages
        o == window.opts
        sys == Preserved(ms, o)
        rest == Remaining(ms, o)
        body == IF sys THEN Tail(window.result) ELSE window.result
        budget == IF sys
                    THEN o.maxTokens - NewestTokens(<<ms[1]>>, 1)
                    ELSE o.maxTokens
        n == Len(body)
    IN  /\ sys => (window.result # <<>> /\ window.result[1] = ms[1])
        /\ ~sys => window.result = body
        /\ IsSuffix(body, rest)
        /\ n >= IF o.minMessages < Len(rest) THEN o.minMessages
                ELSE Len(rest)
        /\ \A j \in 1..n :
             j > o.minMessages => NewestTokens(rest, j) <= budget
        /\ n < Len(rest) => NewestTokens(rest, n + 1) > budget

C26_Witness ==
  /\ window.pc = "done"
  /\ Len(window.messages) = 3
  /\ window.opts.minMessages = 1
  /\ window.opts.keepSystemMessage
  /\ window.messages[1].role = "system"
  /\ Len(window.result) = 2
  /\ NewestTokens(window.messages, 1) + NewestTokens(<<window.messages[1]>>, 1)
       > window.opts.maxTokens

\* the positions of the remaining messages that the result retains
Retained(messages, opts, result) ==
  LET rest == Remaining(messages, opts)
      body == IF Preserved(messages, opts) /\ result # <<>>
                THEN Tail(result) ELSE result
  IN  {i \in 1..Len(rest) : i > Len(rest) - Len(body)}

\* C27: what applyContextWindow retains of the messages other than the
\* preserved system message with a smaller maxTokens is a subset of what
\* it retains with the larger one, both being suffixes of those messages
C27_MonotoneInMaxTokens ==
  window.pc = "done" =>
    LET ms == window.messages
        o == window.opts
    IN  /\ IsSuffix(IF Preserved(ms, o) /\ window.result # <<>>
                      THEN Tail(window.result) ELSE window.result,
                    Remaining(ms, o))
        /\ \A a \in 0..o.maxTokens :
             Retained(ms, o,
                      applyContextWindow(ms, [o EXCEPT !.maxTokens = a]))
               \subseteq Retained(ms, o, window.result)

C27_Witness ==
  /\ window.pc = "done"
  /\ Len(window.messages) = 3
  /\ Retained(window.messages, window.opts, window.result) = {2, 3}
  /\ \E a \in 0..window.opts.maxTokens :
       Retained(window.messages, window.opts,
                applyContextWindow(window.messages,
                                   [window.opts EXCEPT !.maxTokens = a]))
         = {3}

\* ------------------------------------------------------------------------
\* PUT and DELETE on /api/agents/[agentId] on their own
\* ------------------------------------------------------------------------

MaxClock == 2

PresetId == "general-assistant"

CustomId == "custom-1"

\* the ids a request may carry: a preset, a custom agent, an id that is not
\* registered and one that AgentIdSchema rejects
RequestIds == {PresetId, CustomId, "ghost", ""}

\* {...a, ...b}
Spread(a, b) ==
  [k \in DOMAIN a \cup DOMAIN b |-> IF k \in DOMAIN b THEN b[k] ELSE a[k]]

\* an object without properties
EmptyObject == [k \in {} |-> TRUE]

\* the defaults of AgentBehaviorSchema, for the fields the model keeps
BehaviorDefaults == [maxTurns |-> 10, stopOnError |-> FALSE]

\* the defaults of AgentModelConfigSchema (preferredModel has none)
ModelConfigDefaults == [maxTokens |-> 4096]

\* parse of a nested object schema: every absent field that has a default
\* gets it
ParseNested(defaults, sent) == Spread(defaults, sent)

\* UpdateAgentRequestSchema.safeParse(body).data: a shallow partial of the
\* definition without id, createdAt and isPreset; unknown keys are stripped
ParseUpdate(body) ==
  [k \in DOMAIN body \cap {"behavior", "modelConfig"} |->
     IF k = "behavior" THEN ParseNested(BehaviorDefaults, body[k])
     ELSE ParseNested(ModelConfigDefaults, body[k])]

\* the object literal that PUT builds from existingAgent and updates
MergeAgent(existingAgent, updates, now) ==
  [Spread(existingAgent, updates) EXCEPT
     !.behavior =
       Spread(existingAgent.behavior,
              IF "behavior" \in DOMAIN updates THEN updates.behavior
              ELSE EmptyObject),
     !.modelConfig =
       Spread(existingAgent.modelConfig,
              IF "modelConfig" \in DOMAIN updates THEN updates.modelConfig
              ELSE EmptyObject),
     !.id = existingAgent.id,
     !.createdAt = existingAgent.createdAt,
     !.isPreset = existingAgent.isPreset,
     !.updatedAt = now]

\* the checks without the one of the preset flag
Precheck_NoPresetCheck(registered, agentId) ==
  IF agentId = "" THEN 400
  ELSE IF agentId \notin DOMAIN registered THEN 404
  ELSE 200

\* the checks PUT and DELETE start with: the status of the response they
\* return, 200 if they go on
Precheck(registered, agentId) ==
  IF agentId = "" THEN 400
  ELSE IF agentId \notin DOMAIN registered THEN 404
  ELSE IF registered[agentId].isPreset THEN 403
  ELSE 200

BodyPart(key, values) == {EmptyObject} \cup {key :> v : v \in values}

\* the request bodies that pass the schema
UpdateBodies ==
  {b @@ m @@ p :
     b \in BodyPart("behavior",
                    {EmptyObject, [maxTurns |-> 3], [stopOnError |-> TRUE]}),
     m \in BodyPart("modelConfig", {EmptyObject, [preferredModel |-> "m"]}),
     p \in BodyPart("isPreset", {TRUE})}

\* the names of the nested fields that a body names
Named(body) ==
  [behavior |-> IF "behavior" \in DOMAIN body
                  THEN DOMAIN body.behavior ELSE {},
   modelConfig |-> IF "modelConfig" \in DOMAIN body
                     THEN DOMAIN body.modelConfig ELSE {}]

StoredAgent(id, isPreset, behavior, modelConfig) ==
  [id |-> id, isPreset |-> isPreset, createdAt |-> 0, updatedAt |-> 0,
   behavior |-> behavior, modelConfig |-> modelConfig]

NoStored == StoredAgent("", FALSE, BehaviorDefaults, ModelConfigDefaults)

NoPut == [pc |-> "idle", agentId |-> "", existingAgent |-> NoStored]

NoResponse ==
  [op |-> "none", agentId |-> "", status |-> 0,
   named |-> [behavior |-> {}, modelConfig |-> {}]]

Response(op, agentId, status) ==
  [NoResponse EXCEPT !.op = op, !.agentId = agentId, !.status = status]

\* one preset and one custom agent are registered; no request is in flight
InitCrud ==
  /\ config = [maxConcurrentRuns |-> 1]
  /\ upstream = "down"
  /\ callers = {}
  /\ InitSlots
  /\ exec = NoExec
  /\ reg = NoReg
  /\ retry = NoRetry
  /\ window = NoWindow
  /\ http = [pc |-> "on", put |-> NoPut, last |-> NoResponse]
  /\ \E soe \in BOOLEAN,
        mc \in {[maxTokens |-> 2048],
                [maxTokens |-> 2048, preferredModel |-> "m0"]} :
       agents =
         (PresetId :> StoredAgent(PresetId, TRUE,
                                  [maxTurns |-> 15, stopOnError |-> FALSE],
                                  [maxTokens |-> 4096]))
         @@ (CustomId :> StoredAgent(CustomId, FALSE,
                                     [maxTurns |-> 5, stopOnError |-> soe],
                                     mc))

crudFrame == <<config, upstream, callers, activeRuns, run, agentOf, abort,
               timer, pc, loc, events, request, cancelOk, exec, reg, retry,
               window>>

\* PUT up to `await request.json()`: the checks, existingAgent is read
PutArrives(agentId) ==
  /\ http.pc = "on"
  /\ http.put.pc = "idle"
  /\ LET status == Precheck(agents, agentId) IN
       http' = IF status # 200
                 THEN [http EXCEPT !.last = Response("PUT", agentId, status)]
                 ELSE [http EXCEPT
                         !.put = [pc |-> "json", agentId |-> agentId,
                                  existingAgent |-> agents[agentId]]]
  /\ UNCHANGED <<agents, crudFrame>>

\* request.json() rejects (status 500) or the body fails the schema
\* (status 400)
PutRejectsBody(status) ==
  /\ http.pc = "on"
  /\ http.put.pc = "json"
  /\ http' = [http EXCEPT
                !.put = NoPut,
                !.last = Response("PUT", http.put.agentId, status)]
  /\ UNCHANGED <<agents, crudFrame>>

\* PUT after `await request.json()` with a body that passes the schema:
\* merge, registerAgent, response
PutMerges(body, now) ==
  /\ http.pc = "on"
  /\ http.put.pc = "json"
  /\ LET updatedAgent ==
           MergeAgent(http.put.existingAgent, ParseUpdate(body), now)
     IN  /\ agents' = Spread(agents, updatedAgent.id :> updatedAgent)
         /\ http' = [http EXCEPT
                       !.put = NoPut,
                       !.last = [Response("PUT", updatedAgent.id, 200)
                                   EXCEPT !.named = Named(body)]]
  /\ UNCHANGED crudFrame

\* DELETE: the checks and unregisterAgent, without a suspension after the
\* agent is read
Delete(agentId) ==
  /\ http.pc = "on"
  /\ LET status == Precheck(agents, agentId) IN
       /\ http' = [http EXCEPT !.last = Response("DELETE", agentId, status)]
       /\ agents' = IF status = 200
                      THEN [k \in DOMAIN agents \ {agentId} |-> agents[k]]
                      ELSE agents
  /\ UNCHANGED crudFrame

NextCrud ==
  \/ \E id \in RequestIds : PutArrives(id)
  \/ \E status \in {400, 500} : PutRejectsBody(status)
  \/ \E body \in UpdateBodies, now \in 1..MaxClock : PutMerges(body, now)
  \/ \E id \in RequestIds : Delete(id)

CrudSpec == InitCrud /\ [][NextCrud]_vars

\* C28: no step changes or removes a registered preset, and the response
\* to a PUT or DELETE on a preset has status 403
C28_PresetsAreImmutable ==
  [][\A id \in DOMAIN agents :
       agents[id].isPreset =>
         /\ id \in DOMAIN agents'
         /\ agents'[id] = agents[id]
         /\ (http'.last # http.last /\ http'.last.agentId = id) =>
              http'.last.status = 403]_vars

C28_Witness ==
  /\ http.last = Response("DELETE", PresetId, 403)
  /\ PresetId \in DOMAIN agents
  /\ agents[PresetId].isPreset
  /\ CustomId \notin DOMAIN agents

\* C29: a PUT on a custom agent that answers 200 leaves id, createdAt and
\* isPreset as the handler read them, and every field of behavior and of
\* modelConfig that the body does not name keeps the value the handler read
C29_UpdateMergesFieldByField ==
  [][(http.put.pc = "json" /\ http'.last.status = 200
        /\ http'.put.pc = "idle") =>
       LET before == http.put.existingAgent
           after == agents'[before.id]
           named == http'.last.named
       IN  /\ after.id = before.id
           /\ after.createdAt = before.createdAt
           /\ after.isPreset = before.isPreset
           /\ \A f \in DOMAIN before.behavior \ named.behavior :
                /\ f \in DOMAIN after.behavior
                /\ after.behavior[f] = before.behavior[f]
           /\ \A f \in DOMAIN before.modelConfig \ named.modelConfig :
                /\ f \in DOMAIN after.modelConfig
                /\ after.modelConfig[f] = before.modelConfig[f]]_vars

\* C30: in a run that ended completed without an abort, every tool call of
\* an assistant message whose arguments are not valid JSON (and that is the
\* first call of its turn, or stopOnError is false) has a tool message
\* with its call id later in the history; with stopOnError = false the calls
\* after it in the same turn have their tool messages too
C30_BadJsonIsPerCallError ==
  \A r \in Slots :
    (HasDone(r) /\ DoneRun(r).status = "completed" /\ ~abort[r]) =>
      LET msgs == DoneRun(r).messages
          soe == agentOf[r].behavior.stopOnError
          Answered(i, tc) ==
            \E j \in DOMAIN msgs :
              /\ j > i
              /\ msgs[j].role = "tool"
              /\ msgs[j].tool_call_id = tc.id
      IN  \A i \in DOMAIN msgs :
            hasToolCalls(msgs[i]) =>
              \A k \in DOMAIN msgs[i].tool_calls :
                (/\ ~JsonValid(msgs[i].tool_calls[k].function.arguments)
                 /\ (k = 1 \/ ~soe)) =>
                  /\ Answered(i, msgs[i].tool_calls[k])
                  /\ ~soe =>
                       \A k2 \in DOMAIN msgs[i].tool_calls :
                         k2 > k => Answered(i, msgs[i].tool_calls[k2])

\* C31: the assistant message pushed at the end of the stream of a turn has
\* as content the concatenation of the content deltas of the turn, and as
\* tool_calls the array of the last delta that carried tool calls (no
\* tool_calls when no delta carried any)
C31_AssistantMessageIsWholeTurn ==
  [][\A r \in Slots :
       PushesAssistant(r) =>
         LET m == run'[r].messages[Len(run'[r].messages)]
         IN  /\ m.content = FinalTurnContent(r)
             /\ IF loc[r].assistantMessage = NoAssistant
                  THEN "tool_calls" \notin DOMAIN m
                  ELSE /\ "tool_calls" \in DOMAIN m
                       /\ m.tool_calls = loc[r].assistantMessage.tool_calls
       ]_vars

\* the steps that record a failed model invocation
ModelErrorSteps(steps) ==
  {i \in DOMAIN steps : /\ steps[i].type = "error"
                        /\ steps[i].toolName = None
                        /\ steps[i].error = ModelErrMsg}

\* C32: a model invocation that throws (the fetch or a read of the body
\* rejects, so no assistant message is pushed) is recorded as an error
\* step; when the generator resumes after that step, with stopOnError the run gets
\* status failed and the message as error, done follows at once and no
\* turn is started after the step; without stopOnError the next turn is
\* started if turns remain and the abort signal is not set
C32_ModelErrorPolicy ==
  /\ [][\A r \in Slots :
          /\ (pc[r] \in {"await_model", "await_read"}
                /\ pc'[r] = "y_errstep"
                /\ run'[r].messages = run[r].messages) =>
               /\ Len(run'[r].steps) = Len(run[r].steps) + 1
               /\ Len(run'[r].steps) \in ModelErrorSteps(run'[r].steps)
          /\ (/\ pc[r] = "y_errstep"
              /\ pc'[r] # "y_errstep"
              /\ Len(run[r].steps) \in ModelErrorSteps(run[r].steps)) =>
               IF agentOf[r].behavior.stopOnError
                 THEN /\ pc'[r] = "y_done"
                      /\ run'[r].status = "failed"
                      /\ run'[r].error = ModelErrMsg
                      /\ run'[r].currentTurn = run[r].currentTurn
                      /\ loc'[r].modelCalls = loc[r].modelCalls
                      /\ events'[r][Len(events'[r])].run = run'[r]
                 ELSE (/\ run[r].currentTurn < agentOf[r].behavior.maxTurns
                       /\ ~abort[r]) =>
                        /\ pc'[r] = "y_thinking"
                        /\ run'[r].currentTurn = run[r].currentTurn + 1
       ]_vars
  /\ [](\A r \in Slots :
          agentOf[r].behavior.stopOnError =>
            \A i \in ModelErrorSteps(run[r].steps) :
              \A j \in DOMAIN run[r].steps :
                j > i => run[r].steps[j].type # "thinking")

C32_Witness ==
  \E r \in Slots :
    /\ pc[r] = "ended"
    /\ agentOf[r].behavior.stopOnError
    /\ agentOf[r].behavior.maxTurns = MaxTurns
    /\ run[r].status = "failed"
    /\ run[r].error = ModelErrMsg
    /\ run[r].currentTurn = 1

\* C33: once the abort signal of a run is set, the run makes no further
\* model invocation
C33_NoModelCallAfterAbort ==
  [][\A r \in Slots :
       abort[r] => loc'[r].modelCalls <= loc[r].modelCalls]_vars

\* ------------------------------------------------------------------------
\* An agent with an allow-list, and a model that names another tool
\* ------------------------------------------------------------------------

\* the tools sent to the model with the request of a turn
AdvertisedTools(agent) ==
  IF agent.tools # {}
    THEN {n \in DOMAIN ToolRegistry : n \in agent.tools}
    ELSE {n \in DOMAIN ToolRegistry : ToolRegistry[n].enabled}

\* one caller, an agent whose allow-list is ToolNames, a completion
\* endpoint that answers with calls of OtherTool
InitAllow ==
  /\ \E b \in {x \in Behaviors : ~x.requireConfirmation} :
       agents = [a \in AgentIds |->
                   [AgentDefinition(a, b, "") EXCEPT !.tools = ToolNames]]
  /\ config = [maxConcurrentRuns |-> 1]
  /\ upstream = "outside"
  /\ exec = NoExec
  /\ OthersIdle
  /\ callers = {1}
  /\ InitSlots

SpecAllow == InitAllow /\ [][Next]_vars

\* the tools whose handler ran during the run of slot r: the registry
\* returned a result without error for them
ExecutedTools(r) ==
  {run[r].steps[i].toolName :
     i \in {j \in DOMAIN run[r].steps :
              /\ run[r].steps[j].type = "tool_result"
              /\ run[r].steps[j].error = None}}

C35_ToolMessagesAnswerListedCalls ==
  \A r \in Slots :
    LET msgs == run[r].messages
    IN  \A i \in DOMAIN msgs :
          msgs[i].role = "tool" =>
            LET before == {j \in 1..(i - 1) : msgs[j].role = "assistant"}
            IN  /\ before # {}
                /\ LET a == msgs[SetMax(before)]
                   IN  /\ "tool_calls" \in DOMAIN a
                       /\ \E k \in DOMAIN a.tool_calls :
                            a.tool_calls[k].id = msgs[i].tool_call_id

\* C36: the run snapshot of every done event has endedAt set, whichever
\* way the run ended
C36_DoneRunHasEndedAt ==
  \A r \in Slots : HasDone(r) => DoneRun(r).endedAt

\* C37: a run ends completed only if one of its model invocations
\* succeeded; a run whose every model invocation failed never ends
\* completed, and its output is never the user's own input
C37_CompletedNeedsModelSuccess ==
  \A r \in Slots :
    HasDone(r) =>
      /\ DoneRun(r).status = "completed" =>
           \E i \in DOMAIN DoneRun(r).messages :
             DoneRun(r).messages[i].role = "assistant"
      /\ (\A i \in DOMAIN DoneRun(r).messages :
            DoneRun(r).messages[i].role # "assistant") =>
           DoneRun(r).output # <<"input">>

\* the calls whose handler executeToolCalls has started so far: the valid
\* calls of every batch up to the current one that name a registered tool
StartedHandlers ==
  LET upto == IF exec.i + Len(exec.batch) < Len(exec.validCalls)
                THEN exec.i + Len(exec.batch) ELSE Len(exec.validCalls)
  IN {exec.validCalls[p] : p \in 1..upto} \
       {i \in DOMAIN exec.kinds : exec.kinds[i] = "notfound"}

\* the started handlers that have certainly not finished: those of the
\* current batch that have not settled, and those that never settle (a
\* handler that lost the race against its timer is not cancelled)
RunningHandlers ==
  {i \in StartedHandlers :
     /\ i \notin exec.inTime
     /\ \/ exec.kinds[i] = "never"
        \/ /\ exec.pc = "batch"
           /\ \E b \in Pending(exec) : exec.batch[b] = i}

\* C38: the number of handlers started and not finished never exceeds
\* maxConcurrent
C38_RunningHandlersBounded ==
  Cardinality(RunningHandlers) <= exec.opts.maxConcurrent

\* ------------------------------------------------------------------------
\* Agents that are registered again and unregistered while runs are in
\* flight
\* ------------------------------------------------------------------------

\* two definitions of the same agent id that differ in every limit and in
\* the allow-list
ManagedDefinitions ==
  {AgentDefinition(a, [maxToolCallsPerTurn |-> 1, maxTurns |-> 1,
                       autoContinue |-> FALSE, stopOnError |-> TRUE,
                       requireConfirmation |-> FALSE], "") : a \in AgentIds}
  \cup
  {[AgentDefinition(a, [maxToolCallsPerTurn |-> MaxCalls,
                        maxTurns |-> MaxTurns,
                        autoContinue |-> TRUE, stopOnError |-> FALSE,
                        requireConfirmation |-> FALSE], "")
      EXCEPT !.tools = ToolNames] : a \in AgentIds}

\* one caller, one of the two definitions registered, a completion
\* endpoint that answers
InitManaged ==
  /\ \E a \in ManagedDefinitions : agents = [x \in {a.id} |-> a]
  /\ config = [maxConcurrentRuns |-> 1]
  /\ upstream = "up"
  /\ exec = NoExec
  /\ OthersIdle
  /\ callers = {1}
  /\ InitSlots

\* registerAgent(agent): this.agents.set(agent.id, agent)
RegisterAgent(agent) ==
  /\ agents' = [x \in DOMAIN agents \cup {agent.id} |->
                  IF x = agent.id THEN agent ELSE agents[x]]
  /\ UNCHANGED <<config, upstream, callers, exec, others, activeRuns, run,
                 agentOf, abort, timer, pc, loc, events, request, cancelOk>>

\* unregisterAgent(agentId): this.agents.delete(agentId)
UnregisterAgent(agentId) ==
  /\ agentId \in DOMAIN agents
  /\ agents' = [x \in DOMAIN agents \ {agentId} |-> agents[x]]
  /\ UNCHANGED <<config, upstream, callers, exec, others, activeRuns, run,
                 agentOf, abort, timer, pc, loc, events, request, cancelOk>>

NextManaged ==
  \/ Next
  \/ \E a \in ManagedDefinitions : RegisterAgent(a)
  \/ \E id \in AgentIds : UnregisterAgent(id)

SpecManaged == InitManaged /\ [][NextManaged]_vars

\* the "Turn n" thinking steps of a run
TurnSteps(steps) ==
  {i \in DOMAIN steps : /\ steps[i].type = "thinking"
                        /\ steps[i].content[1] = "Turn"}

\* the error steps recorded by the catch block of a turn
TurnErrorSteps(steps) ==
  {i \in DOMAIN steps : steps[i].type = "error" /\ steps[i].toolName = None}

\* C39: a run uses the agent definition captured when it started.  A step
\* that changes the registered agents changes no run and ends none; the
\* captured definition, allow-list included, stays the same from the start
\* of the run to its release; and the run keeps the captured limits: its
\* turns never exceed the captured maxTurns, the assistant messages of its
\* history list at most the captured maxToolCallsPerTurn calls (once the
\* step that announces the truncation was consumed), under the
\* captured stopOnError no turn follows a failed model invocation, and
\* without the captured autoContinue a further turn starts only after a
\* turn that ended in its catch block
C39_RunKeepsCapturedAgent ==
  /\ [][/\ agents' # agents =>
             UNCHANGED <<activeRuns, run, agentOf, abort, timer, pc, loc,
                         events, request, cancelOk>>
        /\ \A r \in Slots :
             agentOf'[r] # agentOf[r] => pc[r] = "idle" \/ pc'[r] = "idle"
       ]_vars
  /\ [](\A r \in Slots :
          LET b == agentOf[r].behavior
              steps == run[r].steps
              msgs == run[r].messages
          IN  /\ run[r].currentTurn <= b.maxTurns
              /\ loc[r].modelCalls <= b.maxTurns
              /\ pc[r] # "y_limit" =>
                   \A i \in DOMAIN msgs :
                     (/\ msgs[i].role = "assistant"
                      /\ "tool_calls" \in DOMAIN msgs[i])
                       => Len(msgs[i].tool_calls) <= b.maxToolCallsPerTurn
              /\ b.stopOnError =>
                   \A i \in ModelErrorSteps(steps) :
                     \A j \in TurnSteps(steps) : j < i
              /\ ~b.autoContinue =>
                   Cardinality(TurnSteps(steps))
                     <= 1 + Cardinality(TurnErrorSteps(steps)))

\* a run finished its second turn although the definition now registered
\* under its agent id allows one turn only
C39_Witness ==
  \E r \in Slots :
    /\ HasDone(r)
    /\ request[r].agentId \in DOMAIN agents
    /\ agents[request[r].agentId] # agentOf[r]
    /\ agents[request[r].agentId].behavior.maxTurns < run[r].currentTurn

\* the result of applyContextWindow without the preserved system message
ResultBody ==
  IF Preserved(window.messages, window.opts) /\ window.result # <<>>
    THEN Tail(window.result) ELSE window.result

\* C40: under truncate-oldest, a result that retains more messages than
\* minMessages besides the preserved system message has an estimated token
\* count, preserved system message included, of at most maxTokens; a result
\* over the budget is held at the minMessages floor
C40_OverBudgetOnlyAtFloor ==
  (window.pc = "done" /\ window.opts.strategy = "truncate-oldest") =>
    /\ Len(ResultBody) > window.opts.minMessages =>
         calculateConversationTokens(window.result) <= window.opts.maxTokens
    /\ calculateConversationTokens(window.result) > window.opts.maxTokens =>
         /\ Len(ResultBody) <= window.opts.minMessages
         /\ Cardinality({i \in DOMAIN window.result :
                           window.result[i].role # "system"})
              <= window.opts.minMessages

\* a truncated result that retains more messages than a floor of at least
\* one message, within the budget
C40_Witness ==
  /\ window.pc = "done"
  /\ window.opts.strategy = "truncate-oldest"
  /\ window.opts.minMessages >= 1
  /\ Len(ResultBody) > window.opts.minMessages
  /\ Len(window.result) < Len(window.messages)
  /\ calculateConversationTokens(window.messages) > window.opts.maxTokens
  /\ calculateConversationTokens(window.result) <= window.opts.maxTokens
====
